---------------------------- MODULE Spec2Model ----------------------------
(***************************************************************************)
(* A model of the F1 telemetry analysis program:                           *)
(*   - DriverPerformanceAnalyzer (src/performance_metrics.py), the metric  *)
(*     engine, whose methods are pure functions of a telemetry table;      *)
(*   - the Flask front-end (src/src/app.py) and the F1DataLoader facade    *)
(*     (src/src/data_acquisition.py) with the process-wide current         *)
(*     session and loader_lock.                                            *)
(*                                                                         *)
(* A telemetry table (pandas DataFrame) is a function from column names    *)
(* to sequences of equal length.  Python positions are 0-based; position p *)
(* of a column c is c[p + 1] here.  Channel values are integers.           *)
(***************************************************************************)
EXTENDS Integers, Sequences, FiniteSets, TLC

VARIABLES
    telemetry,  \* self.telemetry of the analyzer under test
    pc,         \* position of the metric call: "loop" | "ready" | "done" | "idle"
    threshold,  \* braking_zones: the threshold argument
    i,          \* braking_zones: the loop index (enumerate)
    in_zone,    \* braking_zones: the in_zone flag
    start,      \* braking_zones: the start local (NoValue while unassigned)
    zones,      \* braking_zones: the zones list
    call,       \* the metric called and its arguments (a record)
    result,     \* what the metric call returned
    session,    \* data_loader.session
    loader_lock,\* loader_lock: 0 when free, else the thread holding it
    req,        \* per thread: the request it is serving and its position
    noted,      \* what has been noted of the reads of data_loader.session
    laps,       \* self.laps of the analyzer under test
    caller      \* what the calling code kept of the calls it made before

vars == <<telemetry, pc, threshold, i, in_zone, start, zones, call, result,
          session, loader_lock, req, noted, laps, caller>>

---------------------------------------------------------------------------
(* Bounds of the model *)

MaxScan == 4       \* samples per telemetry table scanned by braking_zones
MaxGearLen == 4    \* samples per telemetry table given to gear_shift_timing
MaxLen == 3        \* samples per telemetry table of the other metrics
MaxApex == 2       \* entries of an apex_distances argument
NumThreads == 2    \* request threads of the web server
NumSessions == 2   \* sessions the upstream API can deliver
MaxLaps == 2       \* rows of a laps table

(* Program constants *)

DefaultThreshold == 10   \* braking_zones(threshold=10)
BrakeOn == 10            \* brake_application_points: Brake > 10
ThrottleOn == 10         \* throttle_pickup_after_apex: Throttle > 10
DefaultOffset == 50      \* corner_entry_speed / corner_exit_speed offsets

NoValue == "NoValue"

\* data_loader.session: None, or a loaded upstream session
None == [loaded |-> FALSE, id |-> 0]
Loaded(s) == [loaded |-> TRUE, id |-> s]

\* The laps argument of the analyzer: None (not given), or a DataFrame of
\* lap data, of which the model keeps the column labels and the row count
LapColumns == {"LapNumber", "LapTime"}
NoLaps == [given |-> FALSE, columns |-> {}, rows |-> 0]
LapsTable(columns, rows) == [given |-> TRUE, columns |-> columns, rows |-> rows]
LapsInputs ==
    {NoLaps} \cup {LapsTable(columns, rows) : columns \in SUBSET LapColumns,
                                              rows \in 0..MaxLaps}

\* Nothing kept of earlier calls
NoNote == [held |-> "nothing"]

\* A float is a record: a number, or NaN (np.nan)
Num(v) == [nan |-> FALSE, v |-> v]
NaN == [nan |-> TRUE, v |-> 0]

\* What a call gave: a returned value or a raised exception
Return(v) == [raised |-> "", value |-> v]
Raise(e) == [raised |-> e, value |-> <<>>]
NoResult == [raised |-> "pending", value |-> <<>>]

---------------------------------------------------------------------------
(* Generic helpers *)

NonDecreasing(s) == \A k \in 1..(Len(s) - 1) : s[k] <= s[k + 1]

Abs(x) == IF x < 0 THEN -x ELSE x

RECURSIVE SumSeq(_)
SumSeq(s) == IF s = <<>> THEN 0 ELSE Head(s) + SumSeq(Tail(s))

\* len(df): the number of rows of the table
NRows(df) == Len(df[CHOOSE c \in DOMAIN df : TRUE])

\* The idle values of the parts of the state a specification does not use
ZonesIdle ==
    /\ threshold = DefaultThreshold
    /\ i = 0
    /\ in_zone = FALSE
    /\ start = NoValue
    /\ zones = <<>>

CallIdle ==
    /\ call = [op |-> "none"]
    /\ result = NoResult
    /\ caller = NoNote

MetricIdle ==
    /\ CallIdle
    /\ laps = NoLaps

Threads == 1..NumThreads
Sessions == 1..NumSessions

\* A request thread: the request it serves (kind and arguments), its position
\* in the handler, the value of data_loader.session it read first (reads = 0
\* before its first read), and its response.
IdleRequest ==
    [kind |-> "idle", pc |-> "idle", driver |-> "", target |-> 0, seen |-> None, reads |-> 0,
     info |-> None, drivers |-> None, resp |-> ""]

WebIdle ==
    /\ session = None
    /\ loader_lock = 0
    /\ req = [t \in Threads |-> IdleRequest]
    /\ noted = [raced |-> FALSE, mixed |-> FALSE]

---------------------------------------------------------------------------
(* DriverPerformanceAnalyzer.braking_zones, one action per loop iteration *)

BrakeVals == {0, 10, 11, 40}
Thresholds == {DefaultThreshold, 30}

\* pd.DataFrame({'Brake': b})
BrakeTable(b) == [c \in {"Brake"} |-> b]

\* brake = self.telemetry['Brake'] > threshold, at position p
BrakeAbove(p) == telemetry["Brake"][p + 1] > threshold

InitZones ==
    /\ \E n \in 0..MaxScan : \E b \in [1..n -> BrakeVals] :
          telemetry = BrakeTable(b)
    /\ threshold \in Thresholds
    /\ pc = "loop"
    /\ i = 0
    /\ in_zone = FALSE
    /\ start = NoValue
    /\ zones = <<>>
    /\ MetricIdle
    /\ WebIdle

\* if b and not in_zone: start = i; in_zone = True
BZOpen ==
    /\ pc = "loop"
    /\ i < NRows(telemetry)
    /\ BrakeAbove(i) /\ ~in_zone
    /\ start' = i
    /\ in_zone' = TRUE
    /\ i' = i + 1
    /\ UNCHANGED <<telemetry, pc, threshold, zones, call, result,
                   session, loader_lock, req, noted, laps, caller>>

\* elif not b and in_zone: end = i-1; zones.append((start, end)); in_zone = False
BZCloseMut ==
    /\ pc = "loop"
    /\ i < NRows(telemetry)
    /\ ~BrakeAbove(i) /\ in_zone
    /\ zones' = Append(zones, <<start, i>>)
    /\ in_zone' = FALSE
    /\ i' = i + 1
    /\ UNCHANGED <<telemetry, pc, threshold, start, call, result,
                   session, loader_lock, req, noted, laps, caller>>

BZClose ==
    /\ pc = "loop"
    /\ i < NRows(telemetry)
    /\ ~BrakeAbove(i) /\ in_zone
    /\ zones' = Append(zones, <<start, i - 1>>)
    /\ in_zone' = FALSE
    /\ i' = i + 1
    /\ UNCHANGED <<telemetry, pc, threshold, start, call, result,
                   session, loader_lock, req, noted, laps, caller>>

\* neither branch of the if/elif: the iteration changes nothing
BZStay ==
    /\ pc = "loop"
    /\ i < NRows(telemetry)
    /\ BrakeAbove(i) = in_zone
    /\ i' = i + 1
    /\ UNCHANGED <<telemetry, pc, threshold, in_zone, start, zones, call,
                   result, session, loader_lock, req, noted, laps, caller>>

\* after the loop: if in_zone: zones.append((start, len(brake)-1)); return zones
BZReturnMut ==
    /\ pc = "loop"
    /\ i = NRows(telemetry)
    /\ pc' = "done"
    /\ UNCHANGED <<telemetry, threshold, i, in_zone, start, zones, call,
                   result, session, loader_lock, req, noted, laps, caller>>

BZReturn ==
    /\ pc = "loop"
    /\ i = NRows(telemetry)
    /\ zones' = IF in_zone
                THEN Append(zones, <<start, NRows(telemetry) - 1>>)
                ELSE zones
    /\ pc' = "done"
    /\ UNCHANGED <<telemetry, threshold, i, in_zone, start, call, result,
                   session, loader_lock, req, noted, laps, caller>>

NextZones == BZOpen \/ BZClose \/ BZStay \/ BZReturn

SpecZones == InitZones /\ [][NextZones]_vars

Positions == 0..(NRows(telemetry) - 1)

\* C1: when braking_zones returns, every zone is a pair (start, end) with
\* start <= end, the list is sorted by start and pairwise non-overlapping, and
\* the positions covered by the zones are exactly those with Brake > threshold
\* (so the list is empty when no Brake value exceeds the threshold).
C1_ZonesCoverExactly ==
    pc = "done" =>
        /\ \A k \in 1..Len(zones) :
              /\ zones[k][1] \in Positions /\ zones[k][2] \in Positions
              /\ zones[k][1] <= zones[k][2]
        /\ \A j, k \in 1..Len(zones) :
              j < k => /\ zones[j][1] < zones[k][1]
                       /\ zones[j][2] < zones[k][1]
        /\ {p \in Positions : \E k \in 1..Len(zones) :
                                 zones[k][1] <= p /\ p <= zones[k][2]}
             = {p \in Positions : telemetry["Brake"][p + 1] > threshold}

C1_Witness ==
    /\ pc = "done"
    /\ Len(zones) = 2
    /\ zones[1][1] < zones[1][2]
    /\ zones[2][2] = NRows(telemetry) - 1

\* C3: the scan is a two-state machine.  After i samples the machine is
\* inside a zone exactly when sample i-1 is above the threshold, and start is
\* then the first position of the run of above-threshold samples ending at
\* i-1.  Every zone recorded so far opens where Brake rises above the
\* threshold (position 0 or after a sample not above it), contains only
\* samples above it, and ends at the last consecutive such sample (the next
\* sample is not above the threshold, or the zone ends at len - 1 after the
\* table ended); consecutive zones are separated by at least one sample.
Opens(p) ==
    /\ telemetry["Brake"][p + 1] > threshold
    /\ (p = 0 \/ telemetry["Brake"][p] <= threshold)

C3_TwoStateMachine ==
    /\ pc = "loop" =>
          /\ in_zone = (i > 0 /\ telemetry["Brake"][i] > threshold)
          /\ in_zone =>
                /\ start \in 0..(i - 1)
                /\ Opens(start)
                /\ \A p \in start..(i - 1) : telemetry["Brake"][p + 1] > threshold
    /\ \A k \in 1..Len(zones) :
          /\ Opens(zones[k][1])
          /\ \A p \in zones[k][1]..zones[k][2] : telemetry["Brake"][p + 1] > threshold
          /\ \/ /\ zones[k][2] + 1 < NRows(telemetry)
                /\ telemetry["Brake"][zones[k][2] + 2] <= threshold
             \/ /\ zones[k][2] = NRows(telemetry) - 1
                /\ pc = "done"
    /\ \A k \in 1..(Len(zones) - 1) : zones[k + 1][1] - zones[k][2] >= 2
    /\ pc = "done" =>
          {zones[k][1] : k \in 1..Len(zones)} = {p \in Positions : Opens(p)}

C3_Witness ==
    /\ pc = "done"
    /\ Len(zones) = 2
    /\ zones[1][1] > 0
    /\ zones[2][2] = NRows(telemetry) - 1

---------------------------------------------------------------------------
(* DataFrame and numpy helpers *)

\* range(n) as a sequence of 1-based row numbers
RowNumbers(n) == [k \in 1..n |-> k]

\* df[mask]: the rows of df where the boolean mask is true, in sample order
RowsWhere(df, mask) ==
    LET kept == SelectSeq(RowNumbers(NRows(df)), LAMBDA r : mask[r])
    IN  [c \in DOMAIN df |-> [j \in 1..Len(kept) |-> df[c][kept[j]]]]

\* series > v and series < v: the boolean mask of a comparison
Above(series, v) == [r \in 1..Len(series) |-> series[r] > v]
Below(series, v) == [r \in 1..Len(series) |-> series[r] < v]

\* np.diff(s) / Series.diff() without its leading NaN: s[k+1] - s[k]
Diff(s) == [k \in 1..(Len(s) - 1) |-> s[k + 1] - s[k]]

\* A metric call: made once on a freshly built analyzer
Called(op) == pc = "done" /\ call.op = op

---------------------------------------------------------------------------
(* DriverPerformanceAnalyzer.gear_shift_timing *)

GearVals == {1, 2, 3}
DistVals == {0, 50, 100, 150}
RpmVals == {9000, 11000}

\* pd.DataFrame({'nGear': g, 'RPM': r, 'Distance': d})
GearTable(g, r, d) ==
    [c \in {"nGear", "RPM", "Distance"} |->
        CASE c = "nGear" -> g [] c = "RPM" -> r [] c = "Distance" -> d]

\* np.diff(nGear) > 0, for one difference
IsUpshiftMut(d) == d /= 0

IsUpshift(d) == d > 0

\* np.where(np.diff(nGear) > 0)[0]: the 0-based positions of the differences
\* that are upshifts, in increasing order
Upshifts(nGear) ==
    LET d == Diff(nGear)
        at == SelectSeq(RowNumbers(Len(d)), LAMBDA k : IsUpshift(d[k]))
    IN  [j \in 1..Len(at) |-> at[j] - 1]

\* [(dist[i], rpm[i]) for i in upshifts]
gear_shift_timing(df) ==
    LET up == Upshifts(df["nGear"])
    IN  [j \in 1..Len(up) |-> <<df["Distance"][up[j] + 1], df["RPM"][up[j] + 1]>>]

InitGear ==
    /\ \E n \in 0..MaxGearLen :
          \E g \in [1..n -> GearVals], r \in [1..n -> RpmVals],
             d \in [1..n -> DistVals] :
                /\ NonDecreasing(d)
                /\ telemetry = GearTable(g, r, d)
    /\ pc = "ready"
    /\ ZonesIdle
    /\ MetricIdle
    /\ WebIdle

GearShiftTiming ==
    /\ pc = "ready"
    /\ call' = [op |-> "gear_shift_timing"]
    /\ result' = Return(gear_shift_timing(telemetry))
    /\ pc' = "done"
    /\ UNCHANGED <<telemetry, threshold, i, in_zone, start, zones,
                   session, loader_lock, req, noted, laps, caller>>

NextGear == GearShiftTiming

SpecGear == InitGear /\ [][NextGear]_vars

\* The 0-based positions p >= 1 where the gear is strictly above the gear of
\* the previous sample
GearRises(df) == {p \in 1..(NRows(df) - 1) : df["nGear"][p + 1] > df["nGear"][p]}

\* The k-th smallest element of a finite set of integers
RECURSIVE KthSmallest(_, _)
KthSmallest(S, k) ==
    LET m == CHOOSE x \in S : \A y \in S : x <= y
    IN  IF k = 1 THEN m ELSE KthSmallest(S \ {m}, k - 1)

\* C4: gear_shift_timing returns, in increasing position order, exactly the
\* pairs (Distance[p], RPM[p]) of the positions p >= 1 where nGear[p] is
\* strictly above nGear[p-1].
C4_UpshiftReportedAtRise ==
    Called("gear_shift_timing") =>
        LET rises == GearRises(telemetry)
        IN  /\ Len(result.value) = Cardinality(rises)
            /\ \A j \in 1..Len(result.value) :
                  LET p == KthSmallest(rises, j)
                  IN  result.value[j] = <<telemetry["Distance"][p + 1],
                                          telemetry["RPM"][p + 1]>>

\* C5: the number of entries gear_shift_timing returns is the number of
\* consecutive sample pairs (p-1, p) with nGear[p] > nGear[p-1]; steps where
\* the gear is equal or decreases add no entry.
C5_OneEntryPerUpshift ==
    Called("gear_shift_timing") =>
        Len(result.value) = Cardinality(GearRises(telemetry))

C5_Witness ==
    /\ Called("gear_shift_timing")
    /\ \E p \in 1..(NRows(telemetry) - 1) :
          telemetry["nGear"][p + 1] < telemetry["nGear"][p]
    /\ \E p \in 1..(NRows(telemetry) - 1) :
          telemetry["nGear"][p + 1] = telemetry["nGear"][p]
    /\ Len(result.value) = 1


---------------------------------------------------------------------------
(* DriverPerformanceAnalyzer.time_lost_in_corners *)

TimeVals == {0, 1, 2, 3, 4}

StrictlyIncreasing(s) == \A k \in 1..(Len(s) - 1) : s[k] < s[k + 1]

\* pd.DataFrame({'Time': tm})
TimeTable(tm) == [c \in {"Time"} |-> tm]

\* self.telemetry.loc[straight_mask, 'Time'].diff().sum(): the differences of
\* consecutive SELECTED rows (sum skips the leading NaN of diff)
StraightTime(df, straight_mask) ==
    LET picked == RowsWhere(df, straight_mask)
    IN  SumSeq(Diff(picked["Time"]))

\* .iloc[-1] and .iloc[0] raise IndexError on an empty column
time_lost_in_corners(df, straight_mask) ==
    IF NRows(df) = 0
    THEN Raise("IndexError")
    ELSE LET total_time == df["Time"][NRows(df)] - df["Time"][1]
             straight_time == StraightTime(df, straight_mask)
         IN  Return(<<total_time - straight_time, straight_time>>)

InitCorners ==
    /\ \E n \in 0..MaxLen : \E tm \in [1..n -> TimeVals] :
          /\ StrictlyIncreasing(tm)
          /\ telemetry = TimeTable(tm)
    /\ pc = "ready"
    /\ ZonesIdle
    /\ MetricIdle
    /\ WebIdle

TimeLostInCorners ==
    /\ pc = "ready"
    /\ \E straight_mask \in [1..NRows(telemetry) -> BOOLEAN] :
          /\ call' = [op |-> "time_lost_in_corners", straight_mask |-> straight_mask]
          /\ result' = time_lost_in_corners(telemetry, straight_mask)
    /\ pc' = "done"
    /\ UNCHANGED <<telemetry, threshold, i, in_zone, start, zones,
                   session, loader_lock, req, noted, laps, caller>>

NextCorners == TimeLostInCorners

SpecCorners == InitCorners /\ [][NextCorners]_vars

\* The sum of Time[p] - Time[p-1] over the steps p (0-based, p >= 1) in S
RECURSIVE DeltaSum(_, _)
DeltaSum(tm, S) ==
    IF S = {} THEN 0
    ELSE LET p == CHOOSE x \in S : TRUE
         IN  (tm[p + 1] - tm[p]) + DeltaSum(tm, S \ {p})

\* The result partitions the elapsed time by the straight steps S
PartitionsBy(S) ==
    LET tm == telemetry["Time"]
        steps == 1..(NRows(telemetry) - 1)
    IN  /\ result.value[2] = DeltaSum(tm, S)
        /\ result.value[1] = DeltaSum(tm, steps \ S)
        /\ result.value[1] + result.value[2] = tm[Len(tm)] - tm[1]

\* C6: time_lost_in_corners returns (corner_time, straight_time) where
\* straight_time is the sum of the consecutive-sample deltas over the steps
\* where the mask is true, corner_time the sum over the other steps, and the
\* two add up to Time[last] - Time[first], for every mask.  A step p-1 -> p is
\* read as straight when the mask is true at p, or at p-1, or at both ends:
\* the claim is taken to hold when it holds under any one of these readings.
C6_TimePartition ==
    (Called("time_lost_in_corners") /\ result.raised = "") =>
        LET m == call.straight_mask
            steps == 1..(NRows(telemetry) - 1)
        IN  \/ PartitionsBy({p \in steps : m[p + 1]})
            \/ PartitionsBy({p \in steps : m[p]})
            \/ PartitionsBy({p \in steps : m[p] /\ m[p + 1]})


---------------------------------------------------------------------------
(* Corner-relative metrics: brake_application_points and                   *)
(* throttle_pickup_after_apex                                              *)

ApexVals == {50, 75, 100}
PedalVals == {0, 10, 20}

\* pd.DataFrame({'Distance': d, <pedal>: v}), pedal being Brake or Throttle
PedalTable(pedal, d, v) ==
    [c \in {"Distance", pedal} |-> IF c = "Distance" THEN d ELSE v]

\* Series.iloc[-1]
ILocLastMut(s) == s[1]

ILocLast(s) == s[Len(s)]

\* Series.iloc[0]
ILocFirstMut(s) == s[Len(s)]

ILocFirst(s) == s[1]

\* One iteration of the loop of brake_application_points
BrakePoint(df, apex) ==
    LET before_apex == RowsWhere(df, Below(df["Distance"], apex))
        brake_on == RowsWhere(before_apex, Above(before_apex["Brake"], BrakeOn))
    IN  IF NRows(brake_on) /= 0
        THEN Num(apex - ILocLast(brake_on["Distance"]))
        ELSE NaN

brake_application_points(df, apex_distances) ==
    [k \in 1..Len(apex_distances) |-> BrakePoint(df, apex_distances[k])]

\* One iteration of the loop of throttle_pickup_after_apex
ThrottlePoint(df, apex) ==
    LET after_apex == RowsWhere(df, Above(df["Distance"], apex))
        throttle_on == RowsWhere(after_apex, Above(after_apex["Throttle"], ThrottleOn))
    IN  IF NRows(throttle_on) /= 0
        THEN Num(ILocFirst(throttle_on["Distance"]) - apex)
        ELSE NaN

throttle_pickup_after_apex(df, apex_distances) ==
    [k \in 1..Len(apex_distances) |-> ThrottlePoint(df, apex_distances[k])]

InitBrakePoints ==
    /\ \E n \in 0..MaxLen : \E d \in [1..n -> DistVals], v \in [1..n -> PedalVals] :
          /\ NonDecreasing(d)
          /\ telemetry = PedalTable("Brake", d, v)
    /\ pc = "ready"
    /\ ZonesIdle
    /\ MetricIdle
    /\ WebIdle

InitThrottle ==
    /\ \E n \in 0..MaxLen : \E d \in [1..n -> DistVals], v \in [1..n -> PedalVals] :
          /\ NonDecreasing(d)
          /\ telemetry = PedalTable("Throttle", d, v)
    /\ pc = "ready"
    /\ ZonesIdle
    /\ MetricIdle
    /\ WebIdle

BrakeApplicationPoints ==
    /\ pc = "ready"
    /\ \E n \in 0..MaxApex : \E apex_distances \in [1..n -> ApexVals] :
          /\ call' = [op |-> "brake_application_points",
                      apex_distances |-> apex_distances]
          /\ result' = Return(brake_application_points(telemetry, apex_distances))
    /\ pc' = "done"
    /\ UNCHANGED <<telemetry, threshold, i, in_zone, start, zones,
                   session, loader_lock, req, noted, laps, caller>>

ThrottlePickupAfterApex ==
    /\ pc = "ready"
    /\ \E n \in 0..MaxApex : \E apex_distances \in [1..n -> ApexVals] :
          /\ call' = [op |-> "throttle_pickup_after_apex",
                      apex_distances |-> apex_distances]
          /\ result' = Return(throttle_pickup_after_apex(telemetry, apex_distances))
    /\ pc' = "done"
    /\ UNCHANGED <<telemetry, threshold, i, in_zone, start, zones,
                   session, loader_lock, req, noted, laps, caller>>

NextBrakePoints == BrakeApplicationPoints

SpecBrakePoints == InitBrakePoints /\ [][NextBrakePoints]_vars

NextThrottle == ThrottlePickupAfterApex

SpecThrottle == InitThrottle /\ [][NextThrottle]_vars

Rows == 1..NRows(telemetry)

\* The rows before the apex (Distance strictly below it) with the brake on
BrakedBefore(apex) ==
    {r \in Rows : telemetry["Distance"][r] < apex /\ telemetry["Brake"][r] > BrakeOn}

RunStart(r) ==
    CHOOSE q \in 1..r :
        /\ \A x \in q..r : telemetry["Brake"][x] > BrakeOn
        /\ (q = 1 \/ telemetry["Brake"][q - 1] <= BrakeOn)

\* C8: brake_application_points returns, for each corner, the distance before
\* the apex at which the brake is FIRST applied: apex minus the Distance of
\* the first sample of the braking run that leads into the apex.
C8_BrakeFirstApplied ==
    Called("brake_application_points") =>
        \A k \in 1..Len(call.apex_distances) :
            LET S == BrakedBefore(call.apex_distances[k])
            IN  S /= {} =>
                  LET last == CHOOSE r \in S : \A q \in S : q <= r
                  IN  result.value[k] =
                         Num(call.apex_distances[k]
                                - telemetry["Distance"][RunStart(last)])

\* The rows after the apex (Distance strictly above it) with the throttle on
ThrottleAfter(apex) ==
    {r \in Rows : telemetry["Distance"][r] > apex
                    /\ telemetry["Throttle"][r] > ThrottleOn}

\* C9: throttle_pickup_after_apex returns one value per apex, in apex order:
\* the Distance of the first sample, in sample order, with Distance > apex and
\* Throttle > 10, minus the apex; NaN when there is no such sample.
C9_FirstThrottleAfterApex ==
    Called("throttle_pickup_after_apex") =>
        LET apexes == call.apex_distances
        IN  /\ Len(result.value) = Len(apexes)
            /\ \A k \in 1..Len(apexes) :
                  LET S == ThrottleAfter(apexes[k])
                  IN  IF S = {}
                      THEN result.value[k] = NaN
                      ELSE LET first == CHOOSE r \in S : \A q \in S : r <= q
                           IN  result.value[k] =
                                  Num(telemetry["Distance"][first] - apexes[k])

C9_Witness ==
    /\ Called("throttle_pickup_after_apex")
    /\ Len(call.apex_distances) = 2
    /\ call.apex_distances[1] > call.apex_distances[2]
    /\ result.value[1] = NaN
    /\ result.value[2] /= NaN
    /\ Cardinality(ThrottleAfter(call.apex_distances[2])) >= 2
    /\ \E r \in Rows : /\ telemetry["Distance"][r] = call.apex_distances[2]
                       /\ telemetry["Throttle"][r] > ThrottleOn


---------------------------------------------------------------------------
(* corner_entry_speed and corner_exit_speed *)

SpeedVals == {100, 200}
Offsets == {DefaultOffset, 25}

\* pd.DataFrame({'Distance': d, 'Speed': s})
SpeedTable(d, s) == [c \in {"Distance", "Speed"} |-> IF c = "Distance" THEN d ELSE s]

\* The orders that sort the rows in `rest` by their keys: a row with the least
\* key of those left comes next, any one of them when several are equal
RECURSIVE SortedOrders(_, _)
SortedOrders(keys, rest) ==
    IF rest = {}
    THEN {<<>>}
    ELSE UNION {{<<r>> \o tail : tail \in SortedOrders(keys, rest \ {r})} :
                   r \in {x \in rest : \A y \in rest : keys[x] <= keys[y]}}

\* Series.argsort(): the orders of the rows that sort the keys.  The default
\* kind is quicksort, which is not stable: rows with equal keys may come out
\* in either order, so argsort is any permutation that sorts.
ArgSorts(keys) == SortedOrders(keys, 1..Len(keys))

\* (self.telemetry['Distance']-apex+entry_offset).abs(), for one row
EntryKeyMut(d, apex, entry_offset) == Abs(d - apex - entry_offset)

EntryKey(d, apex, entry_offset) == Abs(d - apex + entry_offset)

\* (self.telemetry['Distance']-apex-exit_offset).abs(), for one row
ExitKey(d, apex, exit_offset) == Abs(d - apex - exit_offset)

\* self.telemetry.iloc[keys.argsort()[:1]]['Speed'].values[0], every value the
\* expression can give on a non-empty table
FirstSortedSpeed(df, keys) == {df["Speed"][perm[1]] : perm \in ArgSorts(keys)}

EntryKeys(df, apex, entry_offset) ==
    [r \in 1..NRows(df) |-> EntryKey(df["Distance"][r], apex, entry_offset)]

ExitKeys(df, apex, exit_offset) ==
    [r \in 1..NRows(df) |-> ExitKey(df["Distance"][r], apex, exit_offset)]

\* The lists a list comprehension can give when its k-th element is any one
\* value of options[k]
RECURSIVE OneOfEach(_)
OneOfEach(options) ==
    IF options = <<>>
    THEN {<<>>}
    ELSE {<<x>> \o rest : x \in Head(options), rest \in OneOfEach(Tail(options))}

InitCornerSpeed ==
    /\ \E n \in 0..MaxLen : \E d \in [1..n -> DistVals], s \in [1..n -> SpeedVals] :
          /\ NonDecreasing(d)
          /\ telemetry = SpeedTable(d, s)
    /\ pc = "ready"
    /\ ZonesIdle
    /\ MetricIdle
    /\ WebIdle

\* .values[0] of an empty selection raises IndexError (the table has no rows)
CornerEntrySpeed ==
    /\ pc = "ready"
    /\ \E n \in 0..MaxApex : \E apex_distances \in [1..n -> ApexVals] :
       \E entry_offset \in Offsets :
          /\ call' = [op |-> "corner_entry_speed", apex_distances |-> apex_distances,
                      offset |-> entry_offset]
          /\ IF n > 0 /\ NRows(telemetry) = 0
             THEN result' = Raise("IndexError")
             ELSE \E speeds \in OneOfEach([k \in 1..n |->
                                FirstSortedSpeed(telemetry,
                                    EntryKeys(telemetry, apex_distances[k], entry_offset))]) :
                     result' = Return(speeds)
    /\ pc' = "done"
    /\ UNCHANGED <<telemetry, threshold, i, in_zone, start, zones,
                   session, loader_lock, req, noted, laps, caller>>

CornerExitSpeed ==
    /\ pc = "ready"
    /\ \E n \in 0..MaxApex : \E apex_distances \in [1..n -> ApexVals] :
       \E exit_offset \in Offsets :
          /\ call' = [op |-> "corner_exit_speed", apex_distances |-> apex_distances,
                      offset |-> exit_offset]
          /\ IF n > 0 /\ NRows(telemetry) = 0
             THEN result' = Raise("IndexError")
             ELSE \E speeds \in OneOfEach([k \in 1..n |->
                                FirstSortedSpeed(telemetry,
                                    ExitKeys(telemetry, apex_distances[k], exit_offset))]) :
                     result' = Return(speeds)
    /\ pc' = "done"
    /\ UNCHANGED <<telemetry, threshold, i, in_zone, start, zones,
                   session, loader_lock, req, noted, laps, caller>>

NextCornerSpeed == CornerEntrySpeed \/ CornerExitSpeed

SpecCornerSpeed == InitCornerSpeed /\ [][NextCornerSpeed]_vars

\* The rows nearest to a target distance
NearestRows(target) ==
    {r \in Rows : \A q \in Rows :
        Abs(telemetry["Distance"][r] - target) <= Abs(telemetry["Distance"][q] - target)}

\* Distance is uniformly spaced, with a positive step
UniformlySpaced ==
    /\ NRows(telemetry) >= 2
    /\ \E step \in 1..150 : \A r \in 1..(NRows(telemetry) - 1) :
          telemetry["Distance"][r + 1] - telemetry["Distance"][r] = step

\* The target distance of the call for one apex
Target(apex) ==
    IF call.op = "corner_entry_speed" THEN apex - call.offset ELSE apex + call.offset

\* C10: corner_entry_speed (corner_exit_speed) returns for each apex the Speed
\* of a sample that minimises |Distance - (apex - offset)| (apex + offset) over
\* all samples; with uniformly spaced Distance, an apex at a sample and a
\* sample exactly at the target distance, it is the Speed of that sample.
C10_NearestSampleSpeed ==
    ((Called("corner_entry_speed") \/ Called("corner_exit_speed"))
        /\ result.raised = "") =>
        LET apexes == call.apex_distances
        IN  /\ Len(result.value) = Len(apexes)
            /\ \A k \in 1..Len(apexes) :
                  /\ \E r \in NearestRows(Target(apexes[k])) :
                        result.value[k] = telemetry["Speed"][r]
                  /\ (/\ UniformlySpaced
                      /\ \E r \in Rows : telemetry["Distance"][r] = apexes[k])
                     => \A r \in Rows :
                           telemetry["Distance"][r] = Target(apexes[k])
                              => result.value[k] = telemetry["Speed"][r]

C10_Witness ==
    /\ Called("corner_entry_speed")
    /\ call.offset = DefaultOffset
    /\ UniformlySpaced
    /\ NRows(telemetry) = 3
    /\ Len(call.apex_distances) = 2
    /\ \E r \in 2..3 :
          /\ telemetry["Distance"][r] = call.apex_distances[1]
          /\ telemetry["Distance"][r - 1] = call.apex_distances[1] - DefaultOffset
          /\ result.value[1] = telemetry["Speed"][r - 1]
          /\ \A q \in Rows \ {r - 1} : telemetry["Speed"][q] /= telemetry["Speed"][r - 1]
    /\ Cardinality(NearestRows(Target(call.apex_distances[2]))) = 2


---------------------------------------------------------------------------
(* The web front-end: /api/load_session, /api/drivers, /api/analyze and    *)
(* /api/export_csv served by concurrent threads over the one data_loader.  *)
(* A step is one access to data_loader.session or to loader_lock.          *)

DriverCodes == {"VER", "HAM"}
PlotTypes == {"trace", "trackmap"}

\* The drivers with laps in upstream session s (session.laps['Driver'])
DriversOf(s) == IF s % 2 = 1 THEN {"VER", "HAM"} ELSE {"VER"}

\* A read of data_loader.session by thread t, in its request
Observe(r, t) ==
    [r EXCEPT !.seen = IF r.reads = 0 THEN session ELSE r.seen,
              !.reads = 1]

\* What a read of data_loader.session by thread t adds to the notes: raced, a
\* handler other than load_session read it while another thread held
\* loader_lock; mixed, an analyze or export request read a value other than
\* the one it read first
Noted(t) ==
    [raced |-> noted.raced \/ (req[t].kind /= "load" /\ loader_lock \notin {0, t}),
     mixed |-> noted.mixed \/ (/\ req[t].kind \in {"analyze", "export"}
                               /\ req[t].reads > 0
                               /\ req[t].seen /= session)]

\* The handler returns: the request's arguments and locals are gone, what it
\* answered stays until the thread's next request
Respond(r, text) ==
    [r EXCEPT !.pc = "done", !.resp = text, !.driver = "",
              !.seen = None, !.reads = 0]

CanStart(t) == req[t].pc \in {"idle", "done"}

MetricsUnused ==
    UNCHANGED <<telemetry, pc, threshold, i, in_zone, start, zones, call, result,
                laps, caller>>

InitWeb ==
    /\ telemetry = BrakeTable(<<>>)
    /\ pc = "idle"
    /\ ZonesIdle
    /\ MetricIdle
    /\ WebIdle

(* /api/load_session *)

LoadStart(t) ==
    /\ CanStart(t)
    /\ \E s \in Sessions :
          req' = [req EXCEPT ![t] = [IdleRequest EXCEPT !.kind = "load",
                                        !.pc = "acquire", !.target = s]]
    /\ UNCHANGED <<session, loader_lock>>
    /\ UNCHANGED noted
    /\ MetricsUnused

\* The handler that enters the section without waiting for the lock
LoadAcquireMut(t) ==
    /\ req[t].kind = "load" /\ req[t].pc = "acquire"
    /\ loader_lock' = t
    /\ req' = [req EXCEPT ![t].pc = "load"]
    /\ UNCHANGED session
    /\ UNCHANGED noted
    /\ MetricsUnused

\* with loader_lock:
LoadAcquire(t) ==
    /\ req[t].kind = "load" /\ req[t].pc = "acquire"
    /\ loader_lock = 0
    /\ loader_lock' = t
    /\ req' = [req EXCEPT ![t].pc = "load"]
    /\ UNCHANGED session
    /\ UNCHANGED noted
    /\ MetricsUnused

\* F1DataLoader.load_session, the upstream fetch and load succeed:
\* self.session = session
LoaderLoadSession(t) ==
    /\ req[t].kind = "load" /\ req[t].pc = "load"
    /\ session' = Loaded(req[t].target)
    /\ req' = [req EXCEPT ![t].pc = "info"]
    /\ UNCHANGED loader_lock
    /\ UNCHANGED noted
    /\ MetricsUnused

\* F1DataLoader.load_session, the upstream fetch or load raises: ValueError
\* leaves the with block (the lock is released) and the handler answers
LoaderLoadFails(t) ==
    /\ req[t].kind = "load" /\ req[t].pc = "load"
    /\ loader_lock' = 0
    /\ req' = [req EXCEPT ![t] = Respond(req[t], "Could not load session")]
    /\ UNCHANGED session
    /\ UNCHANGED noted
    /\ MetricsUnused

\* session_info = data_loader.get_session_info()
LoadSessionInfo(t) ==
    /\ req[t].kind = "load" /\ req[t].pc = "info"
    /\ req' = [req EXCEPT ![t] = [Observe(req[t], t) EXCEPT !.pc = "drivers",
                                                           !.info = session]]
    /\ UNCHANGED <<session, loader_lock>>
    /\ noted' = Noted(t)
    /\ MetricsUnused

\* drivers = data_loader.get_all_drivers()
LoadAllDrivers(t) ==
    /\ req[t].kind = "load" /\ req[t].pc = "drivers"
    /\ req' = [req EXCEPT ![t] = [Observe(req[t], t) EXCEPT !.pc = "release",
                                                           !.drivers = session]]
    /\ UNCHANGED <<session, loader_lock>>
    /\ noted' = Noted(t)
    /\ MetricsUnused

\* the with block ends; return jsonify(success=True, session_info, drivers)
LoadRelease(t) ==
    /\ req[t].kind = "load" /\ req[t].pc = "release"
    /\ loader_lock' = 0
    /\ req' = [req EXCEPT ![t] = Respond(req[t], "success")]
    /\ UNCHANGED session
    /\ UNCHANGED noted
    /\ MetricsUnused

(* /api/drivers *)

DriversStart(t) ==
    /\ CanStart(t)
    /\ req' = [req EXCEPT ![t] = [IdleRequest EXCEPT !.kind = "drivers",
                                                    !.pc = "check"]]
    /\ UNCHANGED <<session, loader_lock>>
    /\ UNCHANGED noted
    /\ MetricsUnused

\* if data_loader.session is None: 'No session loaded'
DriversCheck(t) ==
    /\ req[t].kind = "drivers" /\ req[t].pc = "check"
    /\ req' = [req EXCEPT ![t] =
                  IF session = None
                  THEN Respond(Observe(req[t], t), "No session loaded")
                  ELSE [Observe(req[t], t) EXCEPT !.pc = "drivers"]]
    /\ UNCHANGED <<session, loader_lock>>
    /\ noted' = Noted(t)
    /\ MetricsUnused

\* drivers = data_loader.get_all_drivers(); None or empty: 'No drivers found'
DriversList(t) ==
    /\ req[t].kind = "drivers" /\ req[t].pc = "drivers"
    /\ req' = [req EXCEPT ![t] =
                  IF session = None \/ DriversOf(session.id) = {}
                  THEN Respond(Observe(req[t], t), "No drivers found in session")
                  ELSE Respond([Observe(req[t], t) EXCEPT !.drivers = session],
                               "success")]
    /\ UNCHANGED <<session, loader_lock>>
    /\ noted' = Noted(t)
    /\ MetricsUnused

(* /api/analyze *)

\* plot_type is drawn where the handler first uses it (AnalyzePlot)
AnalyzeStart(t) ==
    /\ CanStart(t)
    /\ \E d \in DriverCodes :
          req' = [req EXCEPT ![t] = [IdleRequest EXCEPT !.kind = "analyze",
                                        !.pc = "check", !.driver = d]]
    /\ UNCHANGED <<session, loader_lock>>
    /\ UNCHANGED noted
    /\ MetricsUnused

\* The handler that goes on without the test of data_loader.session
AnalyzeCheckMut(t) ==
    /\ req[t].kind = "analyze" /\ req[t].pc = "check"
    /\ req' = [req EXCEPT ![t] = [Observe(req[t], t) EXCEPT !.pc = "validate"]]
    /\ UNCHANGED <<session, loader_lock>>
    /\ noted' = Noted(t)
    /\ MetricsUnused

\* if data_loader.session is None: 'No session loaded'
AnalyzeCheck(t) ==
    /\ req[t].kind = "analyze" /\ req[t].pc = "check"
    /\ req' = [req EXCEPT ![t] =
                  IF session = None
                  THEN Respond(Observe(req[t], t), "No session loaded")
                  ELSE [Observe(req[t], t) EXCEPT !.pc = "validate"]]
    /\ UNCHANGED <<session, loader_lock>>
    /\ noted' = Noted(t)
    /\ MetricsUnused

\* if not data_loader.validate_driver_code(driver): 'Driver not found'
AnalyzeValidate(t) ==
    /\ req[t].kind = "analyze" /\ req[t].pc = "validate"
    /\ req' = [req EXCEPT ![t] =
                  IF session = None \/ req[t].driver \notin DriversOf(session.id)
                  THEN Respond(Observe(req[t], t), "Driver not found in session")
                  ELSE [Observe(req[t], t) EXCEPT !.pc = "lap"]]
    /\ UNCHANGED <<session, loader_lock>>
    /\ noted' = Noted(t)
    /\ MetricsUnused

\* lap = data_loader.get_driver_lap(driver, lap_type); ValueError is answered
\* by the handler's except clause
AnalyzeLap(t) ==
    /\ req[t].kind = "analyze" /\ req[t].pc = "lap"
    /\ req' = [req EXCEPT ![t] =
                  IF session = None
                  THEN Respond(Observe(req[t], t), "No session loaded. Call load_session() first.")
                  ELSE IF req[t].driver \notin DriversOf(session.id)
                  THEN Respond(Observe(req[t], t), "Driver not found in session.")
                  ELSE [Observe(req[t], t) EXCEPT !.pc = "plot"]]
    /\ UNCHANGED <<session, loader_lock>>
    /\ noted' = Noted(t)
    /\ MetricsUnused

\* the plot: 'trackmap' passes data_loader.session to the renderer, 'trace'
\* reads nothing shared; then the metrics and the answer
AnalyzePlot(t) ==
    /\ req[t].kind = "analyze" /\ req[t].pc = "plot"
    /\ \E plot_type \in PlotTypes :
          IF plot_type = "trackmap"
          THEN /\ req' = [req EXCEPT ![t] = Respond(Observe(req[t], t), "success")]
               /\ noted' = Noted(t)
          ELSE /\ req' = [req EXCEPT ![t] = Respond(req[t], "success")]
               /\ UNCHANGED noted
    /\ UNCHANGED <<session, loader_lock>>
    /\ MetricsUnused

(* /api/export_csv *)

ExportStart(t) ==
    /\ CanStart(t)
    /\ \E d \in DriverCodes :
          req' = [req EXCEPT ![t] = [IdleRequest EXCEPT !.kind = "export",
                                        !.pc = "check", !.driver = d]]
    /\ UNCHANGED <<session, loader_lock>>
    /\ UNCHANGED noted
    /\ MetricsUnused

\* if data_loader.session is None: 'No session loaded'
ExportCheck(t) ==
    /\ req[t].kind = "export" /\ req[t].pc = "check"
    /\ req' = [req EXCEPT ![t] =
                  IF session = None
                  THEN Respond(Observe(req[t], t), "No session loaded")
                  ELSE [Observe(req[t], t) EXCEPT !.pc = "lap"]]
    /\ UNCHANGED <<session, loader_lock>>
    /\ noted' = Noted(t)
    /\ MetricsUnused

\* lap = data_loader.get_driver_lap(driver, lap_type), then the export
ExportLap(t) ==
    /\ req[t].kind = "export" /\ req[t].pc = "lap"
    /\ req' = [req EXCEPT ![t] =
                  IF session = None
                  THEN Respond(Observe(req[t], t), "No session loaded. Call load_session() first.")
                  ELSE IF req[t].driver \notin DriversOf(session.id)
                  THEN Respond(Observe(req[t], t), "Driver not found in session.")
                  ELSE Respond(Observe(req[t], t), "success")]
    /\ UNCHANGED <<session, loader_lock>>
    /\ noted' = Noted(t)
    /\ MetricsUnused

NextWeb ==
    \E t \in Threads :
        \/ LoadStart(t) \/ LoadAcquire(t) \/ LoaderLoadSession(t)
        \/ LoaderLoadFails(t) \/ LoadSessionInfo(t) \/ LoadAllDrivers(t)
        \/ LoadRelease(t)
        \/ DriversStart(t) \/ DriversCheck(t) \/ DriversList(t)
        \/ AnalyzeStart(t) \/ AnalyzeCheck(t) \/ AnalyzeValidate(t)
        \/ AnalyzeLap(t) \/ AnalyzePlot(t)
        \/ ExportStart(t) \/ ExportCheck(t) \/ ExportLap(t)

SpecWeb == InitWeb /\ [][NextWeb]_vars

\* C2: a session load never interleaves with a read of the shared current
\* session: no /api/drivers, /api/analyze or /api/export_csv request reads
\* data_loader.session while a /api/load_session request holds loader_lock
\* (from before it replaces the session until it has finished), and all the
\* reads of data_loader.session made inside one analyze or export request
\* observe one and the same session.
C2_NoLoadInterleavesRead == ~noted.raced /\ ~noted.mixed


---------------------------------------------------------------------------
(* min_speed_per_corner *)

DefaultWindow == 10      \* min_speed_per_corner(window=10)
Windows == {DefaultWindow, 50}

\* mask & mask
And(a, b) == [r \in 1..Len(a) |-> a[r] /\ b[r]]

\* Series.min(): NaN on an empty series
SeriesMin(s) ==
    IF s = <<>>
    THEN NaN
    ELSE Num(CHOOSE m \in {s[k] : k \in 1..Len(s)} : \A k \in 1..Len(s) : m <= s[k])

\* (Distance > apex - window) & (Distance < apex + window)
InWindowMut(df, apex, window) ==
    [r \in 1..NRows(df) |-> /\ df["Distance"][r] >= apex - window
                            /\ df["Distance"][r] <= apex + window]

InWindow(df, apex, window) ==
    And(Above(df["Distance"], apex - window), Below(df["Distance"], apex + window))

\* One iteration of the loop: self.telemetry.loc[mask, 'Speed'].min()
MinSpeed(df, apex, window) ==
    SeriesMin(RowsWhere(df, InWindow(df, apex, window))["Speed"])

min_speed_per_corner(df, apex_distances, window) ==
    [k \in 1..Len(apex_distances) |-> MinSpeed(df, apex_distances[k], window)]

MinSpeedPerCorner ==
    /\ pc = "ready"
    /\ \E n \in 0..MaxApex : \E apex_distances \in [1..n -> ApexVals] :
       \E window \in Windows :
          /\ call' = [op |-> "min_speed_per_corner", apex_distances |-> apex_distances,
                      window |-> window]
          /\ result' = Return(min_speed_per_corner(telemetry, apex_distances, window))
    /\ pc' = "done"
    /\ UNCHANGED <<telemetry, threshold, i, in_zone, start, zones,
                   session, loader_lock, req, noted, laps, caller>>

NextMinSpeed == MinSpeedPerCorner

SpecMinSpeed == InitCornerSpeed /\ [][NextMinSpeed]_vars

\* The rows whose Distance lies strictly inside the window of an apex
WindowRows(apex) ==
    {r \in Rows : Abs(telemetry["Distance"][r] - apex) < call.window}

\* C11: min_speed_per_corner returns one value per apex, in apex order; the
\* value of an apex is the least Speed of the samples whose Distance lies in
\* the window of the apex (more than apex - window and less than
\* apex + window), a sample outside the window never lowers it, and it is NaN
\* when no sample lies in the window.
C11_MinSpeedInWindow ==
    Called("min_speed_per_corner") =>
        /\ result.raised = ""
        /\ Len(result.value) = Len(call.apex_distances)
        /\ \A k \in 1..Len(call.apex_distances) :
              LET inside == WindowRows(call.apex_distances[k])
              IN  IF inside = {}
                  THEN result.value[k] = NaN
                  ELSE /\ \E r \in inside : result.value[k] = Num(telemetry["Speed"][r])
                       /\ \A r \in inside : result.value[k].v <= telemetry["Speed"][r]

\* Two apexes; the window of the first holds two samples of different Speed
\* and a slower sample lies just outside it, on its edge
C11_Witness ==
    /\ Called("min_speed_per_corner")
    /\ Len(call.apex_distances) = 2
    /\ call.apex_distances[1] /= call.apex_distances[2]
    /\ \E r \in Rows :
          /\ Abs(telemetry["Distance"][r] - call.apex_distances[2]) = call.window
          /\ WindowRows(call.apex_distances[2]) /= {}
          /\ telemetry["Speed"][r] < result.value[2].v
    /\ \E r, q \in WindowRows(call.apex_distances[1]) :
          telemetry["Speed"][r] < telemetry["Speed"][q]


---------------------------------------------------------------------------
(* Pedal shares: full_throttle_percentage and coasting_time_percentage     *)

MaxShareLen == 5   \* samples per telemetry table given to the share metrics

FullThrottle == 95       \* full_throttle_percentage: Throttle > 95
CoastBelow == 5          \* coasting_time_percentage: Throttle < 5, Brake < 5
Percent == 100           \* ... .mean() * 100

ThrottleVals == {0, 5, 95, 100}
CoastBrakeVals == {0, 5}

RECURSIVE GCD(_, _)
GCD(a, b) == IF b = 0 THEN a ELSE GCD(b, a % b)

\* A float that is the quotient a / b of two integers (b > 0, a >= 0), kept
\* exact and in lowest terms
Ratio(a, b) == [nan |-> FALSE, num |-> a \div GCD(a, b), den |-> b \div GCD(a, b)]

\* x * k for a float x and an integer k; NaN stays NaN
Times(x, k) == IF x.nan THEN NaN ELSE Ratio(x.num * k, x.den)

\* The number of True entries of a boolean mask
RECURSIVE CountTrue(_)
CountTrue(mask) ==
    IF mask = <<>> THEN 0
    ELSE (IF Head(mask) THEN 1 ELSE 0) + CountTrue(Tail(mask))

\* Series.mean() of a boolean series: NaN when the series is empty
BoolMean(mask) ==
    IF Len(mask) = 0 THEN NaN ELSE Ratio(CountTrue(mask), Len(mask))

\* series >= v, the mask of a comparison that lets the value itself through
AtLeast(series, v) == [r \in 1..Len(series) |-> series[r] >= v]

\* mask | mask
Or(a, b) == [r \in 1..Len(a) |-> a[r] \/ b[r]]

\* pd.DataFrame({'Throttle': t, 'Brake': b})
ShareTable(t, b) == [c \in {"Throttle", "Brake"} |-> IF c = "Throttle" THEN t ELSE b]

\* The share taken over all rows but the first
full_throttle_percentageTail(df) ==
    IF NRows(df) = 0 THEN NaN
    ELSE Times(BoolMean(Above(Tail(df["Throttle"]), FullThrottle)), Percent)

full_throttle_percentageMut(df) ==
    Times(BoolMean(AtLeast(df["Throttle"], FullThrottle)), Percent)

full_throttle_percentage(df) ==
    Times(BoolMean(Above(df["Throttle"], FullThrottle)), Percent)

coasting_time_percentageMut(df) ==
    LET coast == Or(Below(df["Throttle"], CoastBelow), Below(df["Brake"], CoastBelow))
    IN  Times(BoolMean(coast), Percent)

coasting_time_percentage(df) ==
    LET coast == And(Below(df["Throttle"], CoastBelow), Below(df["Brake"], CoastBelow))
    IN  Times(BoolMean(coast), Percent)

InitShare ==
    /\ \E n \in 0..MaxShareLen :
       \E t \in [1..n -> ThrottleVals], b \in [1..n -> CoastBrakeVals] :
          telemetry = ShareTable(t, b)
    /\ pc = "ready"
    /\ ZonesIdle
    /\ MetricIdle
    /\ WebIdle

FullThrottlePercentage ==
    /\ pc = "ready"
    /\ call' = [op |-> "full_throttle_percentage"]
    /\ result' = Return(full_throttle_percentage(telemetry))
    /\ pc' = "done"
    /\ UNCHANGED <<telemetry, threshold, i, in_zone, start, zones,
                   session, loader_lock, req, noted, laps, caller>>

\* The call that keeps its mask in the table: self.telemetry['Coast'] = coast
CoastingTimePercentageMut ==
    /\ pc = "ready"
    /\ call' = [op |-> "coasting_time_percentage"]
    /\ result' = Return(coasting_time_percentage(telemetry))
    /\ pc' = "done"
    /\ telemetry' = [c \in DOMAIN telemetry \cup {"Coast"} |->
                        IF c = "Coast"
                        THEN And(Below(telemetry["Throttle"], CoastBelow),
                                 Below(telemetry["Brake"], CoastBelow))
                        ELSE telemetry[c]]
    /\ UNCHANGED <<threshold, i, in_zone, start, zones,
                   session, loader_lock, req, noted, laps, caller>>

CoastingTimePercentage ==
    /\ pc = "ready"
    /\ call' = [op |-> "coasting_time_percentage"]
    /\ result' = Return(coasting_time_percentage(telemetry))
    /\ pc' = "done"
    /\ UNCHANGED <<telemetry, threshold, i, in_zone, start, zones,
                   session, loader_lock, req, noted, laps, caller>>

NextShare == FullThrottlePercentage \/ CoastingTimePercentage

SpecShare == InitShare /\ [][NextShare]_vars

\* The samples at full throttle
FullThrottleRows == {r \in Rows : telemetry["Throttle"][r] > 95}

\* C12: on a non-empty table full_throttle_percentage is
\* 100 * (number of samples with Throttle > 95) / (number of samples), lies
\* between 0 and 100 inclusive, is 60 for Throttle = [0, 100, 100, 0, 100],
\* and does not count a sample with Throttle exactly 95.
C12_FullThrottleShare ==
    (Called("full_throttle_percentage") /\ NRows(telemetry) > 0) =>
        /\ result.raised = ""
        /\ ~result.value.nan
        /\ result.value.num * NRows(telemetry) =
              100 * Cardinality(FullThrottleRows) * result.value.den
        /\ 0 <= result.value.num
        /\ result.value.num <= 100 * result.value.den
        /\ telemetry["Throttle"] = <<0, 100, 100, 0, 100>>
              => result.value = [nan |-> FALSE, num |-> 60, den |-> 1]
        /\ (\A r \in Rows : telemetry["Throttle"][r] \in {0, 95})
              => result.value.num = 0

\* The five samples of the example: three of them above 95
C12_Witness ==
    /\ Called("full_throttle_percentage")
    /\ telemetry["Throttle"] = <<0, 100, 100, 0, 100>>
    /\ result.value = [nan |-> FALSE, num |-> 60, den |-> 1]


---------------------------------------------------------------------------
(* throttle_smoothness, and the two throttle metrics on a table whose rows *)
(* a caller has reordered (telemetry.iloc[perm])                           *)

MaxPermLen == 4    \* samples per telemetry table that is reordered

ReorderVals == {0, 50, 96, 100}

\* pd.DataFrame({'Throttle': t})
ThrottleTable(t) == [c \in {"Throttle"} |-> t]

\* np.abs(series)
AbsAll(s) == [k \in 1..Len(s) |-> Abs(s[k])]

\* ndarray.mean() of non-negative integers: NaN (and a RuntimeWarning, no
\* exception) when the array is empty
Mean(s) == IF Len(s) = 0 THEN NaN ELSE Ratio(SumSeq(s), Len(s))

\* The mean of the signed differences
throttle_smoothnessMut(df) == Mean(Diff(df["Throttle"]))

throttle_smoothness(df) == Mean(AbsAll(Diff(df["Throttle"])))

\* The permutations of n rows
RowOrders(n) == {p \in [1..n -> 1..n] : \A a, b \in 1..n : p[a] = p[b] => a = b}

\* df.iloc[perm]: the rows of df in the order perm
Reordered(df, perm) == [c \in DOMAIN df |-> [k \in 1..NRows(df) |-> df[c][perm[k]]]]

InitReorder ==
    /\ \E n \in 0..MaxPermLen : \E t \in [1..n -> ReorderVals] :
          telemetry = ThrottleTable(t)
    /\ pc = "ready"
    /\ ZonesIdle
    /\ MetricIdle
    /\ WebIdle

ThrottleSmoothness ==
    /\ pc = "ready"
    /\ call' = [op |-> "throttle_smoothness"]
    /\ result' = Return(throttle_smoothness(telemetry))
    /\ pc' = "done"
    /\ UNCHANGED <<telemetry, threshold, i, in_zone, start, zones,
                   session, loader_lock, req, noted, laps, caller>>

\* The caller keeps the value it got and builds the analyzer of the next call
\* on the reordered table
Reorder ==
    /\ pc = "done"
    /\ call.op \in {"full_throttle_percentage", "throttle_smoothness"}
    /\ \E perm \in RowOrders(NRows(telemetry)) :
          /\ telemetry' = Reordered(telemetry, perm)
          /\ call' = [op |-> "reorder", metric |-> call.op, perm |-> perm,
                      original |-> telemetry, before |-> result.value]
    /\ result' = NoResult
    /\ pc' = "reordered"
    /\ UNCHANGED <<threshold, i, in_zone, start, zones,
                   session, loader_lock, req, noted, laps, caller>>

\* The same metric, called on the reordered table
Recompute ==
    /\ pc = "reordered"
    /\ call' = [call EXCEPT !.op = "recompute"]
    /\ result' = Return(IF call.metric = "full_throttle_percentage"
                        THEN full_throttle_percentage(telemetry)
                        ELSE throttle_smoothness(telemetry))
    /\ pc' = "done"
    /\ UNCHANGED <<telemetry, threshold, i, in_zone, start, zones,
                   session, loader_lock, req, noted, laps, caller>>

NextReorder == FullThrottlePercentage \/ ThrottleSmoothness \/ Reorder \/ Recompute

SpecReorder == InitReorder /\ [][NextReorder]_vars

\* The metric has been called on the original table and on the reordered one
Recomputed(metric) == pc = "done" /\ call.op = "recompute" /\ call.metric = metric

Identity(n) == [k \in 1..n |-> k]
Reversal(n) == [k \in 1..n |-> n + 1 - k]

\* x != y for two floats: NaN differs from everything, itself included
Differs(x, y) == x.nan \/ y.nan \/ x /= y

\* C13: full_throttle_percentage gives the same result on a table and on
\* every reordering of its rows.
C13_FullThrottleOrderFree ==
    Recomputed("full_throttle_percentage") => result.value = call.before

\* A reordering that moves a full-throttle sample to another position
C13_Witness ==
    /\ Recomputed("full_throttle_percentage")
    /\ NRows(telemetry) = MaxPermLen
    /\ telemetry["Throttle"] /= call.original["Throttle"]
    /\ ~result.value.nan
    /\ result.value.num = 25
    /\ call.original["Throttle"][1] > 95
    /\ telemetry["Throttle"][1] <= 95

\* C14 as stated: throttle_smoothness of a table reordered by a permutation
\* that is not the identity differs from that of the original table.
C14_SmoothnessMustChange ==
    (Recomputed("throttle_smoothness")
        /\ call.perm /= Identity(NRows(telemetry)))
        => Differs(result.value, call.before)

\* C14, amended: throttle_smoothness depends on the order of the rows; on a
\* table of at least three samples whose Throttle strictly increases, every
\* reordering other than the identity and the reversal changes it.
C14_SmoothnessOrderDependent ==
    (Recomputed("throttle_smoothness")
        /\ NRows(telemetry) >= 3
        /\ StrictlyIncreasing(call.original["Throttle"])
        /\ call.perm \notin {Identity(NRows(telemetry)), Reversal(NRows(telemetry))})
        => Differs(result.value, call.before)

C14_Witness ==
    /\ Recomputed("throttle_smoothness")
    /\ call.original["Throttle"] = <<0, 50, 96, 100>>
    /\ telemetry["Throttle"] = <<0, 96, 50, 100>>
    /\ call.before = [nan |-> FALSE, num |-> 100, den |-> 3]
    /\ result.value = [nan |-> FALSE, num |-> 64, den |-> 1]


\* The samples with neither pedal pressed
CoastingRows ==
    {r \in Rows : telemetry["Throttle"][r] < 5 /\ telemetry["Brake"][r] < 5}

\* C15: on a non-empty table coasting_time_percentage is
\* 100 * (number of samples with Throttle < 5 and Brake < 5) / (number of
\* samples); a sample with only one of the two below 5 does not count, and
\* Throttle = [0, 0, 100] with Brake = [0, 0, 0] gives 2 of 3 samples, 200/3.
C15_CoastingShare ==
    (Called("coasting_time_percentage") /\ NRows(telemetry) > 0) =>
        /\ result.raised = ""
        /\ ~result.value.nan
        /\ result.value.num * NRows(telemetry) =
              100 * Cardinality(CoastingRows) * result.value.den
        /\ (\A r \in Rows : telemetry["Throttle"][r] >= 5 \/ telemetry["Brake"][r] >= 5)
              => result.value.num = 0
        /\ (telemetry["Throttle"] = <<0, 0, 100>> /\ telemetry["Brake"] = <<0, 0, 0>>)
              => result.value = [nan |-> FALSE, num |-> 200, den |-> 3]

\* The three samples of the example: the third has only the brake below 5
C15_Witness ==
    /\ Called("coasting_time_percentage")
    /\ telemetry["Throttle"] = <<0, 0, 100>>
    /\ telemetry["Brake"] = <<0, 0, 0>>
    /\ result.value = [nan |-> FALSE, num |-> 200, den |-> 3]


---------------------------------------------------------------------------
(* drs_usage_timing *)

MaxDrsLen == 5     \* samples per telemetry table given to drs_usage_timing

DrsVals == {0, 5}
DistSteps == {0, 50}
TimeSteps == {1, 2}

\* The channel whose k-th sample is the sum of the first k steps
Cumulative(steps) == [k \in 1..Len(steps) |-> SumSeq(SubSeq(steps, 1, k))]

\* pd.DataFrame({'DRS': drs, 'Distance': d, 'Time': tm})
DrsTable(drs, d, tm) ==
    [c \in {"DRS", "Distance", "Time"} |->
        IF c = "DRS" THEN drs ELSE IF c = "Distance" THEN d ELSE tm]

\* list(zip(a, b))
Zip(a, b) == [k \in 1..Len(a) |-> <<a[k], b[k]>>]

\* Only the samples where DRS comes on
drs_usage_timingMut(df) ==
    LET opens == [r \in 1..NRows(df) |->
                     df["DRS"][r] > 0 /\ (r = 1 \/ df["DRS"][r - 1] <= 0)]
        drs_on == RowsWhere(df, opens)
    IN  Zip(drs_on["Distance"], drs_on["Time"])

drs_usage_timing(df) ==
    LET drs_on == RowsWhere(df, Above(df["DRS"], 0))
    IN  Zip(drs_on["Distance"], drs_on["Time"])

InitDrs ==
    /\ \E n \in 0..MaxDrsLen :
       \E drs \in [1..n -> DrsVals], ds \in [1..n -> DistSteps], ts \in [1..n -> TimeSteps] :
          telemetry = DrsTable(drs, Cumulative(ds), Cumulative(ts))
    /\ pc = "ready"
    /\ ZonesIdle
    /\ MetricIdle
    /\ WebIdle

DrsUsageTiming ==
    /\ pc = "ready"
    /\ call' = [op |-> "drs_usage_timing"]
    /\ result' = Return(drs_usage_timing(telemetry))
    /\ pc' = "done"
    /\ UNCHANGED <<telemetry, threshold, i, in_zone, start, zones,
                   session, loader_lock, req, noted, laps, caller>>

NextDrs == DrsUsageTiming

SpecDrs == InitDrs /\ [][NextDrs]_vars

\* The samples with DRS active
DrsRows == {r \in Rows : telemetry["DRS"][r] > 0}

\* C16: drs_usage_timing returns one (Distance, Time) pair for every sample
\* with DRS > 0 and none for any other sample, in sample order: the k-th pair
\* is that of the k-th such sample, and DRS = [0, 0, 5, 5, 0] gives two pairs.
C16_OnePairPerActiveSample ==
    Called("drs_usage_timing") =>
        /\ result.raised = ""
        /\ Len(result.value) = Cardinality(DrsRows)
        /\ \A k \in 1..Len(result.value) :
              LET r == KthSmallest(DrsRows, k)
              IN  result.value[k] = <<telemetry["Distance"][r], telemetry["Time"][r]>>
        /\ telemetry["DRS"] = <<0, 0, 5, 5, 0>> => Len(result.value) = 2

\* The five samples of the example, with two adjacent active samples that
\* differ in Distance and Time
C16_Witness ==
    /\ Called("drs_usage_timing")
    /\ telemetry["DRS"] = <<0, 0, 5, 5, 0>>
    /\ Len(result.value) = 2
    /\ result.value[1][1] < result.value[2][1]
    /\ result.value[1][2] < result.value[2][2]


---------------------------------------------------------------------------
(* max_brake_pressure_per_zone and brake_consistency, which call           *)
(* braking_zones() with its default threshold                              *)


\* The loop of braking_zones as a function of its locals: brake is the mask
\* Brake > threshold, i the position the loop is at
RECURSIVE ScanZones(_, _, _, _, _)
ScanZones(brake, at, inside, first, found) ==
    IF at = Len(brake)
    THEN IF inside THEN Append(found, <<first, Len(brake) - 1>>) ELSE found
    ELSE IF brake[at + 1] /\ ~inside
         THEN ScanZones(brake, at + 1, TRUE, at, found)
         ELSE IF ~brake[at + 1] /\ inside
              THEN ScanZones(brake, at + 1, FALSE, first, Append(found, <<first, at - 1>>))
              ELSE ScanZones(brake, at + 1, inside, first, found)

braking_zones(df, brake_threshold) ==
    ScanZones(Above(df["Brake"], brake_threshold), 0, FALSE, NoValue, <<>>)

\* Series.iloc[a:b], for 0 <= a <= b <= len
ILocSlice(s, a, b) == SubSeq(s, a + 1, b)

\* Series.max(): NaN on an empty series
SeriesMax(s) ==
    IF s = <<>>
    THEN NaN
    ELSE Num(CHOOSE m \in {s[k] : k \in 1..Len(s)} : \A k \in 1..Len(s) : m >= s[k])

\* The slice that stops before the last sample of the zone
max_brake_pressure_per_zoneMut(df) ==
    LET found == braking_zones(df, DefaultThreshold)
    IN  [k \in 1..Len(found) |->
            SeriesMax(ILocSlice(df["Brake"], found[k][1], found[k][2]))]

max_brake_pressure_per_zone(df) ==
    LET found == braking_zones(df, DefaultThreshold)
    IN  [k \in 1..Len(found) |->
            SeriesMax(ILocSlice(df["Brake"], found[k][1], found[k][2] + 1))]

InitBrakePressure ==
    /\ \E n \in 0..MaxScan : \E b \in [1..n -> BrakeVals] :
          telemetry = BrakeTable(b)
    /\ laps \in LapsInputs
    /\ pc = "ready"
    /\ ZonesIdle
    /\ CallIdle
    /\ WebIdle

MaxBrakePressurePerZone ==
    /\ pc = "ready"
    /\ call' = [op |-> "max_brake_pressure_per_zone"]
    /\ result' = Return(max_brake_pressure_per_zone(telemetry))
    /\ pc' = "done"
    /\ UNCHANGED <<telemetry, threshold, i, in_zone, start, zones,
                   session, loader_lock, req, noted, laps, caller>>


\* Arithmetic of exact quotients
RatAdd(x, y) == Ratio(x.num * y.den + y.num * x.den, x.den * y.den)
RatSub(x, y) == Ratio(x.num * y.den - y.num * x.den, x.den * y.den)
RatMul(x, y) == Ratio(x.num * y.num, x.den * y.den)
RatOver(x, k) == Ratio(x.num, x.den * k)

RECURSIVE RatSum(_)
RatSum(xs) == IF xs = <<>> THEN Ratio(0, 1) ELSE RatAdd(Head(xs), RatSum(Tail(xs)))

\* The exact square root of a quotient of two squares
ISqrt(n) == CHOOSE r \in 0..n : r * r = n
RatSqrt(x) == [nan |-> FALSE, num |-> ISqrt(x.num), den |-> ISqrt(x.den)]

\* np.mean(m) of a list of numbers: NaN on an empty list or a NaN entry
NumMean(m) ==
    IF m = <<>> \/ \E k \in 1..Len(m) : m[k].nan
    THEN NaN
    ELSE Ratio(SumSeq([k \in 1..Len(m) |-> m[k].v]), Len(m))

\* np.std(xs): the square root of the mean squared deviation from the mean;
\* NaN on an empty list or a NaN entry
Std(xs) ==
    IF xs = <<>> \/ \E k \in 1..Len(xs) : xs[k].nan
    THEN NaN
    ELSE LET mu == RatOver(RatSum(xs), Len(xs))
             sq == [k \in 1..Len(xs) |-> RatMul(RatSub(xs[k], mu), RatSub(xs[k], mu))]
         IN  RatSqrt(RatOver(RatSum(sq), Len(xs)))

\* self.laps: None, or a DataFrame given by its column labels and its number
\* of rows (one row per lap)
\* `for _ in self.laps` iterates over the column labels of the DataFrame
brake_consistency(df, lap_data) ==
    IF ~lap_data.given
    THEN NaN
    ELSE LET max_pressures == [c \in 1..Cardinality(lap_data.columns) |->
                                  max_brake_pressure_per_zone(df)]
         IN  Std([c \in 1..Len(max_pressures) |-> NumMean(max_pressures[c])])

BrakeConsistency ==
    /\ pc = "ready"
    /\ call' = [op |-> "brake_consistency"]
    /\ result' = Return(brake_consistency(telemetry, laps))
    /\ pc' = "done"
    /\ UNCHANGED <<telemetry, threshold, i, in_zone, start, zones,
                   session, loader_lock, req, noted, laps, caller>>

NextBrakePressure == MaxBrakePressurePerZone \/ BrakeConsistency

SpecBrakePressure == InitBrakePressure /\ [][NextBrakePressure]_vars

\* The last position of the run of samples above the threshold that holds p
RunEnd(p) ==
    CHOOSE q \in p..(NRows(telemetry) - 1) :
        /\ \A x \in p..q : telemetry["Brake"][x + 1] > DefaultThreshold
        /\ (q = NRows(telemetry) - 1 \/ telemetry["Brake"][q + 2] <= DefaultThreshold)

\* C17: max_brake_pressure_per_zone returns one value per braking zone (one
\* per maximal run of samples with Brake above the default threshold), in
\* zone order, each the greatest Brake value over the positions start..end of
\* its zone, both ends included, and therefore above the threshold.
C17_MaxPerZone ==
    Called("max_brake_pressure_per_zone") =>
        LET opens == {p \in Positions : Opens(p)}
        IN  /\ result.raised = ""
            /\ Len(result.value) = Cardinality(opens)
            /\ \A k \in 1..Len(result.value) :
                  LET first == KthSmallest(opens, k)
                      run == first..RunEnd(first)
                  IN  /\ ~result.value[k].nan
                      /\ \E p \in run : result.value[k].v = telemetry["Brake"][p + 1]
                      /\ \A p \in run : result.value[k].v >= telemetry["Brake"][p + 1]
                      /\ result.value[k].v > DefaultThreshold

\* Two zones; the greatest value of the first is its last sample, the second
\* is a single sample
C17_Witness ==
    /\ Called("max_brake_pressure_per_zone")
    /\ telemetry["Brake"] = <<11, 40, 0, 11>>
    /\ result.value = <<Num(40), Num(11)>>

\* C19: brake_consistency returns NaN whenever fewer than two laps are
\* supplied: when no laps input is given, and when the laps input holds a
\* single lap.
C19_NeedsTwoLaps ==
    (Called("brake_consistency") /\ (~laps.given \/ laps.rows = 1))
        => result.raised = "" /\ result.value.nan


---------------------------------------------------------------------------
(* Metrics of the optional channels: trail_braking_profile,                *)
(* steering_smoothness_index and gforce_efficiency                         *)

MaxOptLen == 3     \* samples per telemetry table given to these metrics

OptionalColumns == {"SteeringAngle", "GforceLat", "GforceLong"}
TrailBrakeVals == {0, 40}
SteerVals == {-10, 0, 10}
GLatVals == {0, 3}
GLongVals == {0, 4}

\* pd.DataFrame with the Brake column and the optional columns in cols
OptionalTable(cols, b, s, lat, long) ==
    [c \in {"Brake"} \cup cols |->
        IF c = "Brake" THEN b
        ELSE IF c = "SteeringAngle" THEN s
        ELSE IF c = "GforceLat" THEN lat ELSE long]

\* 'c' in self.telemetry: c is a column label of the table
HasColumn(df, c) == c \in DOMAIN df

Sign(x) == IF x > 0 THEN 1 ELSE IF x < 0 THEN -1 ELSE 0

\* Series.corr (Pearson) of two columns, kept exact as its sign and its
\* square; NaN on an empty table and when either column has no variance
Pearson(x, y) ==
    LET n == Len(x)
        sx == SumSeq(x)
        sy == SumSeq(y)
        cov == n * SumSeq([k \in 1..n |-> x[k] * y[k]]) - sx * sy
        vx == n * SumSeq([k \in 1..n |-> x[k] * x[k]]) - sx * sx
        vy == n * SumSeq([k \in 1..n |-> y[k] * y[k]]) - sy * sy
    IN  IF n = 0 \/ vx = 0 \/ vy = 0
        THEN NaN
        ELSE [nan |-> FALSE, sign |-> Sign(cov), square |-> Ratio(cov * cov, vx * vy)]

trail_braking_profile(df) ==
    IF HasColumn(df, "SteeringAngle")
    THEN Return(Pearson(df["Brake"], df["SteeringAngle"]))
    ELSE Return(NaN)

steering_smoothness_index(df) ==
    IF HasColumn(df, "SteeringAngle")
    THEN Return(Mean(AbsAll(Diff(df["SteeringAngle"]))))
    ELSE Return(NaN)

\* 'GforceLat' in self.telemetry and 'GforceLong' in self.telemetry
HasGforceMut(df) == HasColumn(df, "GforceLat") \/ HasColumn(df, "GforceLong")

HasGforce(df) == HasColumn(df, "GforceLat") /\ HasColumn(df, "GforceLong")

\* np.sqrt(GforceLat**2 + GforceLong**2), row by row
GforceNorms(df) ==
    [r \in 1..NRows(df) |->
        ISqrt(df["GforceLat"][r] * df["GforceLat"][r]
                + df["GforceLong"][r] * df["GforceLong"][r])]

\* self.telemetry[c] of a column the table lacks raises KeyError
gforce_efficiency(df) ==
    IF HasGforce(df)
    THEN IF HasColumn(df, "GforceLat") /\ HasColumn(df, "GforceLong")
         THEN Return(Mean(GforceNorms(df)))
         ELSE Raise("KeyError")
    ELSE Return(NaN)

InitOptional ==
    /\ \E n \in 0..MaxOptLen : \E cols \in SUBSET OptionalColumns :
       \E b \in [1..n -> TrailBrakeVals], s \in [1..n -> SteerVals],
          lat \in [1..n -> GLatVals], long \in [1..n -> GLongVals] :
          telemetry = OptionalTable(cols, b, s, lat, long)
    /\ pc = "ready"
    /\ ZonesIdle
    /\ MetricIdle
    /\ WebIdle

TrailBrakingProfile ==
    /\ pc = "ready"
    /\ call' = [op |-> "trail_braking_profile"]
    /\ result' = trail_braking_profile(telemetry)
    /\ pc' = "done"
    /\ UNCHANGED <<telemetry, threshold, i, in_zone, start, zones,
                   session, loader_lock, req, noted, laps, caller>>

SteeringSmoothnessIndex ==
    /\ pc = "ready"
    /\ call' = [op |-> "steering_smoothness_index"]
    /\ result' = steering_smoothness_index(telemetry)
    /\ pc' = "done"
    /\ UNCHANGED <<telemetry, threshold, i, in_zone, start, zones,
                   session, loader_lock, req, noted, laps, caller>>

GforceEfficiency ==
    /\ pc = "ready"
    /\ call' = [op |-> "gforce_efficiency"]
    /\ result' = gforce_efficiency(telemetry)
    /\ pc' = "done"
    /\ UNCHANGED <<telemetry, threshold, i, in_zone, start, zones,
                   session, loader_lock, req, noted, laps, caller>>

NextOptional == TrailBrakingProfile \/ SteeringSmoothnessIndex \/ GforceEfficiency

SpecOptional == InitOptional /\ [][NextOptional]_vars

\* C18: a metric of an optional channel returns NaN and raises nothing when
\* the table lacks the channel: trail_braking_profile and
\* steering_smoothness_index without SteeringAngle, gforce_efficiency when
\* GforceLat or GforceLong is absent, also when only one of the two is there.
C18_SentinelWithoutChannel ==
    /\ ((Called("trail_braking_profile") \/ Called("steering_smoothness_index"))
          /\ "SteeringAngle" \notin DOMAIN telemetry)
       => result = Return(NaN)
    /\ (Called("gforce_efficiency")
          /\ ~({"GforceLat", "GforceLong"} \subseteq DOMAIN telemetry))
       => result = Return(NaN)

\* gforce_efficiency on a table of two samples that has GforceLat and not
\* GforceLong
C18_Witness ==
    /\ Called("gforce_efficiency")
    /\ NRows(telemetry) = 2
    /\ DOMAIN telemetry = {"Brake", "GforceLat"}
    /\ result = Return(NaN)


---------------------------------------------------------------------------
(* The metrics that need at least one sample, on tables with and without   *)
(* samples                                                                 *)

MaxEmptyLen == 1   \* samples per telemetry table of this specification

\* pd.DataFrame({'Time': tm, 'Distance': d, 'Speed': s, 'Throttle': t, 'Brake': b})
LapTable(tm, d, s, t, b) ==
    [c \in {"Time", "Distance", "Speed", "Throttle", "Brake"} |->
        IF c = "Time" THEN tm
        ELSE IF c = "Distance" THEN d
        ELSE IF c = "Speed" THEN s
        ELSE IF c = "Throttle" THEN t ELSE b]

InitEmpty ==
    /\ \E n \in 0..MaxEmptyLen :
       \E tm \in [1..n -> TimeVals], d \in [1..n -> DistVals], s \in [1..n -> SpeedVals],
          t \in [1..n -> ThrottleVals], b \in [1..n -> CoastBrakeVals] :
          /\ StrictlyIncreasing(tm)
          /\ NonDecreasing(d)
          /\ telemetry = LapTable(tm, d, s, t, b)
    /\ pc = "ready"
    /\ ZonesIdle
    /\ MetricIdle
    /\ WebIdle

NextEmpty ==
    \/ FullThrottlePercentage
    \/ CoastingTimePercentage
    \/ ThrottleSmoothness
    \/ TimeLostInCorners
    \/ CornerEntrySpeed
    \/ CornerExitSpeed

SpecEmpty == InitEmpty /\ [][NextEmpty]_vars

\* The call asks a metric that needs a sample to compute something
NeedsSample ==
    \/ call.op \in {"full_throttle_percentage", "coasting_time_percentage",
                    "throttle_smoothness", "time_lost_in_corners"}
    \/ /\ call.op \in {"corner_entry_speed", "corner_exit_speed"}
       /\ Len(call.apex_distances) > 0

\* C20: full_throttle_percentage, coasting_time_percentage,
\* throttle_smoothness, time_lost_in_corners, corner_entry_speed and
\* corner_exit_speed report a failure when the table has no samples: the call
\* raises, it does not return a value (neither a number nor NaN, the value
\* that stands for a missing optional channel).
C20_EmptyTableFails ==
    (pc = "done" /\ NeedsSample /\ NRows(telemetry) = 0)
        => result.raised \notin {"", "pending"}

\* ------------------------------------------------------------------------
\* throttle_smoothness on a table with a single sample
\* (performance_metrics.py 82-84)
\* ------------------------------------------------------------------------

\* The mean of |Throttle[k+1] - Throttle[k]| over the consecutive samples
ConsecutiveChange(t) ==
    Ratio(SumSeq([k \in 1..(Len(t) - 1) |-> Abs(t[k + 1] - t[k])]), Len(t) - 1)

\* C21: throttle_smoothness is the mean of |Throttle[i] - Throttle[i-1]| over
\* consecutive samples, and on a table with exactly one sample it reports an
\* explicit failure: no numeric value and not the NaN sentinel.
C21_OneSampleFails ==
    Called("throttle_smoothness") =>
        /\ NRows(telemetry) >= 2 =>
              result = Return(ConsecutiveChange(telemetry["Throttle"]))
        /\ NRows(telemetry) = 1 => result.raised \notin {"", "pending"}

---------------------------------------------------------------------------
(* Sequences of calls on one analyzer: the caller calls a method, keeps    *)
(* what the first call returned, and calls again                           *)

MaxSeqLen == 2     \* samples per telemetry table of this specification

RequiredColumns == {"Time", "Distance", "Speed", "Throttle", "Brake", "RPM", "nGear", "DRS"}

\* Sample k of a lap: the channels alternate between two values, Time and
\* nGear rise, Distance rises by 60 so that no target of corner_entry_speed or
\* corner_exit_speed lies midway between two samples
LapSample(c, k) ==
    CASE c = "Time" -> k
      [] c = "Distance" -> 60 * (k - 1)
      [] c = "Speed" -> IF k % 2 = 1 THEN 200 ELSE 100
      [] c = "Throttle" -> IF k % 2 = 1 THEN 100 ELSE 0
      [] c = "Brake" -> IF k % 2 = 1 THEN 0 ELSE 40
      [] c = "RPM" -> IF k % 2 = 1 THEN 11000 ELSE 9000
      [] c = "nGear" -> k
      [] c = "DRS" -> IF k % 2 = 1 THEN 5 ELSE 0
      [] c = "SteeringAngle" -> IF k % 2 = 1 THEN -10 ELSE 10
      [] c = "GforceLat" -> 3
      [] c = "GforceLong" -> 4

\* DriverPerformanceAnalyzer(telemetry, laps): the attributes are the
\* arguments themselves
InitSequence ==
    /\ \E n \in 0..MaxSeqLen : \E optional \in {{}, OptionalColumns} :
          telemetry = [c \in RequiredColumns \cup optional |->
                          [k \in 1..n |-> LapSample(c, k)]]
    /\ laps \in {NoLaps, LapsTable(LapColumns, MaxLaps)}
    /\ pc = "ready"
    /\ ZonesIdle
    /\ CallIdle
    /\ WebIdle

\* The caller goes on to its next call on the same analyzer; it keeps the
\* first call it made with what that call gave, and whether it has made a
\* different call since
Again ==
    /\ pc = "done"
    /\ pc' = "ready"
    /\ caller' = IF caller = NoNote
                 THEN [held |-> "first call", call |-> call, result |-> result,
                       between |-> FALSE]
                 ELSE [caller EXCEPT !.between = @ \/ call /= caller.call]
    /\ call' = [op |-> "none"]
    /\ result' = NoResult
    /\ UNCHANGED <<telemetry, threshold, i, in_zone, start, zones,
                   session, loader_lock, req, noted, laps>>

NextSequence ==
    \/ MaxBrakePressurePerZone \/ BrakeConsistency \/ BrakeApplicationPoints
    \/ TrailBrakingProfile \/ ThrottlePickupAfterApex \/ FullThrottlePercentage
    \/ ThrottleSmoothness \/ CoastingTimePercentage \/ MinSpeedPerCorner
    \/ CornerEntrySpeed \/ CornerExitSpeed \/ TimeLostInCorners
    \/ SteeringSmoothnessIndex \/ GforceEfficiency \/ GearShiftTiming
    \/ DrsUsageTiming
    \/ Again

SpecSequence == InitSequence /\ [][NextSequence]_vars

\* C22: no method of the analyzer changes its inputs: over any sequence of
\* calls the telemetry table and the laps input stay what they were, and a
\* call gives what the same call gave as the first call on the analyzer,
\* whichever calls were made in between.
C22_InputsUnchanged ==
    /\ [][telemetry' = telemetry /\ laps' = laps]_vars
    /\ []((pc = "done" /\ caller /= NoNote /\ caller.call = call)
              => result = caller.result)

\* full_throttle_percentage is called first, another method after it, and
\* then full_throttle_percentage again, on a table of two samples
C22_Witness ==
    /\ Called("full_throttle_percentage")
    /\ caller /= NoNote
    /\ caller.call = call
    /\ caller.between
    /\ NRows(telemetry) = 2
    /\ result = Return(Ratio(50, 1))
    /\ caller.result = result

---------------------------------------------------------------------------
(* F1DataLoader.get_telemetry (data_acquisition.py 158-207)                *)
(*                                                                         *)
(* Here a DataFrame keeps the order of its columns: it is a record of the  *)
(* column labels in order, the number of rows and the cells of each        *)
(* column; a cell is a number or NaN.                                      *)

MaxTelLen == 1     \* samples of an upstream lap telemetry

Frame(columns, rows, data) ==
    [given |-> TRUE, columns |-> columns, rows |-> rows, data |-> data]

\* lap.get_telemetry() gave None
NoFrame == [given |-> FALSE, columns |-> <<>>, rows |-> 0, data |-> <<>>]

\* The labels of a list of columns
Labels(columns) == {columns[k] : k \in 1..Len(columns)}

CellVals == {Num(7), NaN}

\* The channels the upstream API may or may not deliver, in its order
UpstreamOrder ==
    <<"SteeringAngle", "GforceLong", "GforceLat", "nGear", "Speed", "Time">>

\* The upstream telemetry with the channels in present
Upstream(present, rows, data) ==
    Frame(SelectSeq(UpstreamOrder, LAMBDA c : c \in present), rows, data)

LapTelemetries ==
    {NoFrame} \cup
    UNION {{Upstream(present, rows, data) :
                data \in [present -> [1..rows -> CellVals]]} :
           present \in SUBSET Labels(UpstreamOrder), rows \in 0..MaxTelLen}

expected_cols ==
    <<"Time", "Distance", "Speed", "Throttle", "Brake", "RPM", "nGear", "DRS",
      "X", "Y", "Z">>

numeric_cols ==
    <<"Distance", "Speed", "Throttle", "Brake", "RPM", "nGear", "DRS", "X", "Y", "Z">>

\* np.nan if col != 'nGear' else 0
FillValue(col) == IF col /= "nGear" THEN NaN ELSE Num(0)

\* for col in expected_cols: if col not in df.columns: df[col] = ...
\* (a new column goes after the columns the table has)
FillMissing(df) ==
    LET missing == SelectSeq(expected_cols, LAMBDA c : c \notin Labels(df.columns))
    IN  Frame(df.columns \o missing, df.rows,
              [c \in Labels(df.columns) \cup Labels(missing) |->
                  IF c \in Labels(df.columns)
                  THEN df.data[c]
                  ELSE [k \in 1..df.rows |-> FillValue(c)]])

\* pd.to_numeric(column, errors='coerce').fillna(0)
ToNumericFillna(column) ==
    [k \in 1..Len(column) |-> IF column[k].nan THEN Num(0) ELSE column[k]]

\* for col in numeric_cols: if col in df.columns: df[col] = ...
ConvertNumeric(df) ==
    Frame(df.columns, df.rows,
          [c \in Labels(df.columns) |->
              IF c \in Labels(numeric_cols)
              THEN ToNumericFillna(df.data[c])
              ELSE df.data[c]])

\* df[columns]
SelectColumns(df, columns) ==
    Frame(columns, df.rows, [c \in Labels(columns) |-> df.data[c]])

\* The method that returns the whole table: return df
get_telemetryMut(lap_telemetry) ==
    IF ~lap_telemetry.given \/ lap_telemetry.rows = 0
    THEN Raise("ValueError")
    ELSE Return(ConvertNumeric(FillMissing(lap_telemetry)))

get_telemetry(lap_telemetry) ==
    IF ~lap_telemetry.given \/ lap_telemetry.rows = 0
    THEN Raise("ValueError")
    ELSE Return(SelectColumns(ConvertNumeric(FillMissing(lap_telemetry)),
                              expected_cols))

InitTelemetry ==
    /\ telemetry = BrakeTable(<<>>)
    /\ pc = "ready"
    /\ ZonesIdle
    /\ MetricIdle
    /\ WebIdle

GetTelemetry ==
    /\ pc = "ready"
    /\ \E lap_telemetry \in LapTelemetries :
          /\ call' = [op |-> "get_telemetry", lap_telemetry |-> lap_telemetry]
          /\ result' = get_telemetry(lap_telemetry)
    /\ pc' = "done"
    /\ UNCHANGED <<telemetry, threshold, i, in_zone, start, zones,
                   session, loader_lock, req, noted, laps, caller>>

\* 'c' in telemetry, for the table a call returned
InFrame(c, df) == c \in Labels(df.columns)

GforceError == "G-force data not available for this session"

\* /api/analyze with plot_type 'gg', from the table get_telemetry returned
AnalyzeGg ==
    /\ Called("get_telemetry")
    /\ result.raised = ""
    /\ call' = [op |-> "analyze_gg", lap_telemetry |-> call.lap_telemetry]
    /\ result' = IF ~InFrame("GforceLat", result.value)
                       \/ ~InFrame("GforceLong", result.value)
                 THEN Return([success |-> FALSE, error |-> GforceError])
                 ELSE Return([success |-> TRUE, error |-> ""])
    /\ pc' = "done"
    /\ UNCHANGED <<telemetry, threshold, i, in_zone, start, zones,
                   session, loader_lock, req, noted, laps, caller>>

NextTelemetry == GetTelemetry \/ AnalyzeGg

SpecTelemetry == InitTelemetry /\ [][NextTelemetry]_vars

\* C23: in the table get_telemetry returns, an expected channel that the
\* upstream lap data lacks is NaN in every row, not zero, except nGear, which
\* is 0.
C23_MissingChannelIsNaN ==
    (Called("get_telemetry") /\ result.raised = "") =>
        \A c \in Labels(expected_cols) \ Labels(call.lap_telemetry.columns) :
            \A k \in 1..result.value.rows :
                result.value.data[c][k] = FillValue(c)

---------------------------------------------------------------------------
(* The metrics of the /api/analyze answer (app.py 216-242)                 *)

MaxMetricLen == 3    \* samples of the telemetry table of an analysed lap
Decimals == 2        \* safe_round(value, decimals=2)

\* pd.DataFrame({'Speed': s, 'Throttle': t, 'Brake': b})
MetricsTable(s, t, b) ==
    [c \in {"Speed", "Throttle", "Brake"} |->
        IF c = "Speed" THEN s ELSE IF c = "Throttle" THEN t ELSE b]

RECURSIVE Power(_, _)
Power(b, k) == IF k = 0 THEN 1 ELSE b * Power(b, k - 1)

\* float(value) of a non-NaN value: an integer or a quotient
AsRatio(value) ==
    IF "num" \in DOMAIN value THEN value ELSE Ratio(value.v, 1)

\* round(x, decimals) of a float x >= 0: the nearest multiple of
\* 10**-decimals, the even one when x is exactly halfway
Round(x, decimals) ==
    LET scale == Power(10, decimals)
        q == (x.num * scale) \div x.den
        r == (x.num * scale) % x.den
        up == (2 * r > x.den) \/ (2 * r = x.den /\ q % 2 = 1)
    IN  Ratio(IF up THEN q + 1 ELSE q, scale)

\* safe_round: 0.0 for NaN or None (and on TypeError, ValueError or
\* AttributeError, which no float raises), else the rounded float
safe_round(value) ==
    IF value.nan THEN Ratio(0, 1) ELSE Round(AsRatio(value), Decimals)

\* The analysed lap: get_telemetry returns no table without samples and no
\* NaN in a numeric channel
InitMetrics ==
    /\ \E n \in 1..MaxMetricLen :
       \E s \in [1..n -> SpeedVals], t \in [1..n -> ThrottleVals],
          b \in [1..n -> CoastBrakeVals] :
          telemetry = MetricsTable(s, t, b)
    /\ pc = "ready"
    /\ ZonesIdle
    /\ MetricIdle
    /\ WebIdle

\* analyzer = DriverPerformanceAnalyzer(telemetry); metrics = {...}
AnalyzeMetrics ==
    /\ pc = "ready"
    /\ call' = [op |-> "analyze_metrics"]
    /\ result' = Return(
          [full_throttle_percentage |-> safe_round(full_throttle_percentage(telemetry)),
           coasting_time_percentage |-> safe_round(coasting_time_percentage(telemetry)),
           throttle_smoothness |-> safe_round(throttle_smoothness(telemetry)),
           max_speed |-> safe_round(SeriesMax(telemetry["Speed"])),
           min_speed |-> safe_round(SeriesMin(telemetry["Speed"])),
           avg_speed |-> safe_round(Mean(telemetry["Speed"])),
           max_brake |-> safe_round(SeriesMax(telemetry["Brake"])),
           max_throttle |-> safe_round(SeriesMax(telemetry["Throttle"]))])
    /\ pc' = "done"
    /\ UNCHANGED <<telemetry, threshold, i, in_zone, start, zones,
                   session, loader_lock, req, noted, laps, caller>>

NextMetrics == AnalyzeMetrics

SpecMetrics == InitMetrics /\ [][NextMetrics]_vars

\* C24: each metric of the /api/analyze answer equals the value the analyzer
\* returns for the same telemetry, neither rounded nor replaced; a metric
\* that is NaN is not reported as 0.0.
C24_MetricsPreserved ==
    Called("analyze_metrics") =>
        /\ result.value.full_throttle_percentage = full_throttle_percentage(telemetry)
        /\ result.value.coasting_time_percentage = coasting_time_percentage(telemetry)
        /\ result.value.throttle_smoothness = throttle_smoothness(telemetry)

---------------------------------------------------------------------------
(* F1DataLoader called by one caller, one call after the other             *)
(* (data_acquisition.py 53-156, 256-325)                                   *)

LapsPerDriver == 2  \* laps of a driver in an upstream session

\* The laps of a driver in an upstream session: the drivers of the session
\* have timed laps numbered from 1, the others none

Lap(s, driver, number) == [session |-> s, Driver |-> driver, LapNumber |-> number]

\* self.session.laps.pick_drivers([driver_code])
pick_drivers(s, driver) ==
    IF driver \in DriversOf(s)
    THEN [n \in 1..LapsPerDriver |-> Lap(s, driver, n)]
    ELSE <<>>

\* What a lap selection gives: None, one lap, or a table of laps that may be
\* empty
NoLap == [kind |-> "None", rows |-> <<>>]
OneLap(lap) == [kind |-> "Lap", rows |-> <<lap>>]
LapRows(rows) == [kind |-> "Laps", rows |-> rows]

\* laps.pick_lap(lap_number): the rows with that LapNumber
pick_lap(driver_laps, lap_number) ==
    LapRows(SelectSeq(driver_laps, LAMBDA lap : lap.LapNumber = lap_number))

\* laps.pick_fastest(): the laps of a driver are timed, the first is the
\* fastest
pick_fastest(driver_laps) == OneLap(driver_laps[1])

\* hasattr(lap, 'empty') and lap.empty
IsEmpty(selection) == selection.kind /= "None" /\ selection.rows = <<>>

\* driver_code.upper()
Upper(code) ==
    CASE code = "ver" -> "VER"
      [] code = "ham" -> "HAM"
      [] OTHER -> code

LapTypes == {"fastest", "first", "last", "median"}

\* lap_number: 0 stands for None (the laps of a session count from 1)
NoLapNumber == 0
LapNumbers == {NoLapNumber, 1, 9}

DriverInputs == DriverCodes \cup {"ver", "BOT"}

\* The selection by lap_number, else by lap_type; lap stays None for a
\* lap_type that is none of 'fastest', 'first', 'last'
SelectLap(driver_laps, lap_type, lap_number) ==
    IF lap_number /= NoLapNumber
    THEN pick_lap(driver_laps, lap_number)
    ELSE CASE lap_type = "fastest" -> pick_fastest(driver_laps)
           [] lap_type = "first" ->
                 IF Len(driver_laps) > 0 THEN OneLap(driver_laps[1]) ELSE NoLap
           [] lap_type = "last" ->
                 IF Len(driver_laps) > 0 THEN OneLap(driver_laps[Len(driver_laps)])
                 ELSE NoLap
           [] OTHER -> NoLap

\* The method that only tests `lap is None`
get_driver_lapMut(current, driver_code, lap_type, lap_number) ==
    IF current = None
    THEN Raise("ValueError")
    ELSE LET driver_laps == pick_drivers(current.id, Upper(driver_code))
         IN  IF driver_laps = <<>>
             THEN Raise("ValueError")
             ELSE LET lap == SelectLap(driver_laps, lap_type, lap_number)
                  IN  IF lap = NoLap
                      THEN Raise("ValueError")
                      ELSE Return(lap)

get_driver_lap(current, driver_code, lap_type, lap_number) ==
    IF current = None
    THEN Raise("ValueError")
    ELSE LET driver_laps == pick_drivers(current.id, Upper(driver_code))
         IN  IF driver_laps = <<>>
             THEN Raise("ValueError")
             ELSE LET lap == SelectLap(driver_laps, lap_type, lap_number)
                  IN  IF lap = NoLap \/ IsEmpty(lap)
                      THEN Raise("ValueError")
                      ELSE Return(lap)

\* The list of drivers is sorted and without duplicates: the model keeps the
\* set of its codes; NoDrivers stands for the None that is returned
NoDrivers == [given |-> FALSE, codes |-> {}]
DriverList(codes) == [given |-> TRUE, codes |-> codes]

get_all_drivers(current) ==
    IF current = None \/ DriversOf(current.id) = {}
    THEN NoDrivers
    ELSE DriverList(DriversOf(current.id))

\* Of the info dict the model keeps the session it describes and its drivers
NoInfo == [given |-> FALSE, session |-> 0, drivers |-> {}]

get_session_info(current) ==
    IF current = None
    THEN NoInfo
    ELSE [given |-> TRUE, session |-> current.id, drivers |-> DriversOf(current.id)]

validate_driver_code(current, driver_code) ==
    LET drivers == get_all_drivers(current)
    IN  IF ~drivers.given \/ drivers.codes = {}
        THEN FALSE
        ELSE Upper(driver_code) \in drivers.codes

InitLoader ==
    /\ telemetry = BrakeTable(<<>>)
    /\ pc = "ready"
    /\ ZonesIdle
    /\ MetricIdle
    /\ WebIdle

\* The previous call has returned or raised
CanCall == pc \in {"ready", "done"}

LoaderUnused ==
    UNCHANGED <<telemetry, threshold, i, in_zone, start, zones, loader_lock, req,
                noted, laps>>

\* The call that returns the session and does not store it
LoadSessionMut ==
    /\ CanCall
    /\ \E s \in Sessions :
          /\ call' = [op |-> "load_session", target |-> s]
          /\ result' = Return(Loaded(s))
          /\ caller' = [held |-> "session", session |-> Loaded(s)]
    /\ pc' = "done"
    /\ UNCHANGED session
    /\ LoaderUnused

\* load_session, the fetch and the load succeed; the caller keeps the
\* session it was returned
LoadSession ==
    /\ CanCall
    /\ \E s \in Sessions :
          /\ session' = Loaded(s)
          /\ call' = [op |-> "load_session", target |-> s]
          /\ result' = Return(Loaded(s))
          /\ caller' = [held |-> "session", session |-> Loaded(s)]
    /\ pc' = "done"
    /\ LoaderUnused

\* The call that stores the session before it is loaded
LoadSessionFailsMut ==
    /\ CanCall
    /\ \E s \in Sessions :
          /\ session' = Loaded(s)
          /\ call' = [op |-> "load_session", target |-> s]
    /\ result' = Raise("ValueError")
    /\ pc' = "done"
    /\ UNCHANGED caller
    /\ LoaderUnused

\* load_session, fastf1.get_session or session.load raises
LoadSessionFails ==
    /\ CanCall
    /\ \E s \in Sessions :
          call' = [op |-> "load_session", target |-> s]
    /\ result' = Raise("ValueError")
    /\ pc' = "done"
    /\ UNCHANGED <<session, caller>>
    /\ LoaderUnused

GetDriverLap ==
    /\ CanCall
    /\ \E driver_code \in DriverInputs, lap_type \in LapTypes, lap_number \in LapNumbers :
          /\ call' = [op |-> "get_driver_lap", driver_code |-> driver_code,
                      lap_type |-> lap_type, lap_number |-> lap_number]
          /\ result' = get_driver_lap(session, driver_code, lap_type, lap_number)
    /\ pc' = "done"
    /\ UNCHANGED <<session, caller>>
    /\ LoaderUnused

GetAllDrivers ==
    /\ CanCall
    /\ call' = [op |-> "get_all_drivers"]
    /\ result' = Return(get_all_drivers(session))
    /\ pc' = "done"
    /\ UNCHANGED <<session, caller>>
    /\ LoaderUnused

GetSessionInfo ==
    /\ CanCall
    /\ call' = [op |-> "get_session_info"]
    /\ result' = Return(get_session_info(session))
    /\ pc' = "done"
    /\ UNCHANGED <<session, caller>>
    /\ LoaderUnused

ValidateDriverCode ==
    /\ CanCall
    /\ \E driver_code \in DriverInputs :
          /\ call' = [op |-> "validate_driver_code", driver_code |-> driver_code]
          /\ result' = Return(validate_driver_code(session, driver_code))
    /\ pc' = "done"
    /\ UNCHANGED <<session, caller>>
    /\ LoaderUnused

NextLoader ==
    \/ LoadSession \/ LoadSessionFails \/ GetDriverLap \/ GetAllDrivers
    \/ GetSessionInfo \/ ValidateDriverCode

SpecLoader == InitLoader /\ [][NextLoader]_vars

\* The session the last successful load_session call returned
LastLoaded == caller.session

\* C25: after load_session returns, the loader's current session is the
\* session the call loaded and returned; get_driver_lap, get_all_drivers,
\* get_session_info and validate_driver_code work on the session of the last
\* load that succeeded; a load that cannot be completed raises ValueError.
C25_CurrentSessionIsLastLoaded ==
    /\ (Called("load_session") /\ result.raised = "") =>
          /\ result.value = Loaded(call.target)
          /\ session = result.value
    /\ Called("load_session") => result.raised \in {"", "ValueError"}
    /\ caller /= NoNote =>
          /\ session = LastLoaded
          /\ Called("get_driver_lap") =>
                result = get_driver_lap(LastLoaded, call.driver_code, call.lap_type,
                                        call.lap_number)
          /\ Called("get_all_drivers") =>
                result = Return(DriverList(DriversOf(LastLoaded.id)))
          /\ Called("get_session_info") =>
                /\ result.value.given
                /\ result.value.session = LastLoaded.id
          /\ Called("validate_driver_code") =>
                result = Return(Upper(call.driver_code) \in DriversOf(LastLoaded.id))

\* The fastest lap of HAM is asked for after session 1 was loaded: it is a
\* lap of session 1
C25_Witness ==
    /\ Called("get_driver_lap")
    /\ caller /= NoNote
    /\ LastLoaded = Loaded(1)
    /\ call.driver_code = "HAM"
    /\ call.lap_type = "fastest"
    /\ call.lap_number = NoLapNumber
    /\ result = Return(OneLap(Lap(1, "HAM", 1)))

\* The driver of the call has no lap the selector of the call picks: none
\* with the lap number if one is given, else none at all or a lap_type that
\* selects nothing
SelectsNoLap(driver_laps) ==
    IF call.lap_number /= NoLapNumber
    THEN \A k \in 1..Len(driver_laps) : driver_laps[k].LapNumber /= call.lap_number
    ELSE driver_laps = <<>> \/ call.lap_type \notin {"fastest", "first", "last"}

\* C26: get_driver_lap raises ValueError when no session has been loaded,
\* when the driver has no laps in the loaded session, and when the lap
\* selector yields no lap; it never returns None or an empty lap.
C26_NoLapRaises ==
    Called("get_driver_lap") =>
        /\ session = None => result = Raise("ValueError")
        /\ (session /= None /\ Upper(call.driver_code) \notin DriversOf(session.id))
              => result = Raise("ValueError")
        /\ (session /= None
              /\ SelectsNoLap(pick_drivers(session.id, Upper(call.driver_code))))
              => result = Raise("ValueError")
        /\ result.raised = "" =>
              /\ result.value.kind /= "None"
              /\ result.value.rows /= <<>>

\* Lap number 9 of VER is asked for in a loaded session where VER has no lap
\* of that number: the call raises ValueError
C26_Witness ==
    /\ Called("get_driver_lap")
    /\ session = Loaded(2)
    /\ call.driver_code = "VER"
    /\ call.lap_number = 9
    /\ result = Raise("ValueError")

\* C27: a load_session call that fails leaves the loader's current session
\* as it was before the call: a session loaded before stays current, a loader
\* without a session still has none.
C27_FailedLoadKeepsSession ==
    [][(call'.op = "load_session" /\ result'.raised /= "") => session' = session]_vars

\* A load_session call has failed after session 1 was loaded, and session 1
\* is still the current session
C27_Witness ==
    /\ Called("load_session")
    /\ result = Raise("ValueError")
    /\ caller /= NoNote
    /\ LastLoaded = Loaded(1)
    /\ session = Loaded(1)

---------------------------------------------------------------------------
(* The current session of the web server over sequences of requests        *)

NoSessionLoaded == "No session loaded"

\* The request of thread t is one that reads the current session and it has
\* been answered
ReaderAnswered(t) ==
    /\ req[t].kind \in {"drivers", "analyze", "export"}
    /\ req[t].pc = "done"

InLoadSection(t) ==
    /\ req[t].kind = "load"
    /\ req[t].pc \in {"load", "info", "drivers", "release"}

\* C29: at most one /api/load_session request at a time is inside the
\* section that loads the session and reads its info and its driver list, and
\* the session_info and drivers of a successful load answer both describe the
\* session that request loaded.
C29_LoadAnswersOwnSession ==
    /\ \A t, u \in Threads : (InLoadSection(t) /\ InLoadSection(u)) => t = u
    /\ \A t \in Threads :
          (req[t].kind = "load" /\ req[t].pc = "done" /\ req[t].resp = "success")
              => /\ req[t].info = Loaded(req[t].target)
                 /\ req[t].drivers = Loaded(req[t].target)

\* Two load requests for different sessions have both been answered with
\* success
C29_Witness ==
    \E t, u \in Threads :
        /\ req[t].kind = "load" /\ req[t].pc = "done" /\ req[t].resp = "success"
        /\ req[u].kind = "load" /\ req[u].pc = "done" /\ req[u].resp = "success"
        /\ req[t].target /= req[u].target
        /\ req[t].info = Loaded(req[t].target)
        /\ req[u].drivers = Loaded(req[u].target)

===========================================================================
